---------------------------- MODULE Spec2Model ----------------------------
(***************************************************************************)
(* The virtual-memory subsystem of the os4 kernel: the stack frame         *)
(* allocator, the three-level page table, memory areas / memory sets and   *)
(* the mmap / munmap path of the task manager.                             *)
(*                                                                         *)
(* The repository holds two copies of the leaf modules of mm/: the         *)
(* reference copy under os4-ref/ and the hand-typed draft under os4/.      *)
(* Where the two copies of a function differ, both are modelled and the    *)
(* variables fa_src and pt_src say which copy a run links.                 *)
(***************************************************************************)
EXTENDS Integers, Sequences, FiniteSets, TLC

VARIABLES
    phys,       \* the physical range given to init: [l |-> ceil(ekernel), r |-> floor(MEMORY_END)]
    fa_src,     \* which frame_allocator.rs is linked: "os4-ref" or "os4"
    pt_src,     \* which page_table.rs is linked: "os4-ref" or "os4"
    mode,       \* "boot" before mm::init, "run" once tasks or tests run, "panic" after a kernel panic
    fa,         \* FRAME_ALLOCATOR: [current, end, recycled]
    mem,        \* physical memory: frame number -> the non-zero words of the frame
    v,          \* a Vec<FrameTracker> held outside any address space (page numbers)
    pt,         \* a PageTable object: [root_ppn, frames]; root_ppn = None before PageTable::new
    apps,       \* the application images linked into the kernel (loader::get_app_data)
    kernel_space, \* KERNEL_SPACE: a MemorySet [page_table, areas]
    tm,         \* TASK_MANAGER: [tasks, current_task]
    memory_set, \* a MemorySet held by a local variable: let memory_set = MemorySet::from_elf(..)
    last        \* the last call and what it returned

vars == <<phys, fa_src, pt_src, mode, fa, mem, v, pt, apps, kernel_space, tm, memory_set,
          last>>

(***************************************************************************)
(* Bounds of the model.                                                    *)
(***************************************************************************)
MinPPN == 2            \* lowest first frame number offered to init
MaxFrames == 4         \* largest capacity r - l of the allocator specifications
MaxTestN == 3          \* largest N of frame_allocator_test
MaxStackFrames == 3    \* largest capacity r - l where dealloc takes any page number

None == -1              \* Option::None where the value is a page number

(***************************************************************************)
(* Physical memory. A frame is 512 eight-byte words; the model keeps the   *)
(* non-zero words only, so an all-zero frame is the empty function.        *)
(***************************************************************************)
ZeroFrame == <<>>
StaleFrame == (0 :> 1025) @@ (1 :> 1)

Word(frame, i) == IF i \in DOMAIN frame THEN frame[i] ELSE 0

Put(frame, i, bits) ==
    IF bits = 0
    THEN [j \in (DOMAIN frame) \ {i} |-> frame[j]]
    ELSE [j \in (DOMAIN frame) \cup {i} |-> IF j = i THEN bits ELSE frame[j]]

(***************************************************************************)
(* StackFrameAllocator                                                     *)
(***************************************************************************)
StackFrameAllocator_new == [current |-> 0, end |-> 0, recycled |-> <<>>]

init(a, l, r) == [a EXCEPT !.current = l, !.end = r]

init_os4(a, l, r) == [a EXCEPT !.current = l, !.end = l]

alloc_no_pop(a) ==
    IF Len(a.recycled) > 0
    THEN [fa |-> a, ret |-> a.recycled[Len(a.recycled)]]
    ELSE IF a.current = a.end
    THEN [fa |-> a, ret |-> None]
    ELSE [fa |-> [a EXCEPT !.current = @ + 1], ret |-> a.current]

alloc_fresh_first(a) ==
    IF a.current # a.end
    THEN [fa |-> [a EXCEPT !.current = @ + 1], ret |-> a.current]
    ELSE IF Len(a.recycled) > 0
    THEN [fa |-> [a EXCEPT !.recycled = SubSeq(@, 1, Len(@) - 1)],
          ret |-> a.recycled[Len(a.recycled)]]
    ELSE [fa |-> a, ret |-> None]

alloc(a) ==
    IF Len(a.recycled) > 0
    THEN [fa |-> [a EXCEPT !.recycled = SubSeq(@, 1, Len(@) - 1)],
          ret |-> a.recycled[Len(a.recycled)]]
    ELSE IF a.current = a.end
    THEN [fa |-> a, ret |-> None]
    ELSE [fa |-> [a EXCEPT !.current = @ + 1], ret |-> a.current]

dealloc_no_recycled_check(a, ppn) ==
    IF ppn >= a.current
    THEN [fa |-> a, panic |-> TRUE]
    ELSE [fa |-> [a EXCEPT !.recycled = Append(@, ppn)], panic |-> FALSE]

dealloc(a, ppn) ==
    IF ppn >= a.current \/ \E i \in 1..Len(a.recycled) : a.recycled[i] = ppn
    THEN [fa |-> a, panic |-> TRUE]
    ELSE [fa |-> [a EXCEPT !.recycled = Append(@, ppn)], panic |-> FALSE]

(***************************************************************************)
(* FrameTracker, frame_alloc, frame_dealloc. The kernel heap state k is    *)
(* [fa, mem]; a result carries the state at the point of return or panic.  *)
(***************************************************************************)
\* a FrameTracker::new that leaves the frame as it finds it
FrameTracker_new_no_clear(m, ppn) == m

FrameTracker_new(m, ppn) ==
    IF ppn \in DOMAIN m THEN [m EXCEPT ![ppn] = ZeroFrame] ELSE m

frame_alloc(k) ==
    LET r == alloc(k.fa)
    IN  IF r.ret = None
        THEN [k |-> [k EXCEPT !.fa = r.fa], ret |-> None]
        ELSE [k |-> [fa |-> r.fa, mem |-> FrameTracker_new(k.mem, r.ret)], ret |-> r.ret]

frame_dealloc(k, ppn) ==
    LET r == dealloc(k.fa, ppn)
    IN  [k |-> [k EXCEPT !.fa = r.fa], panic |-> r.panic]

\* Dropping a Vec<FrameTracker>: the elements are dropped first to last.
RECURSIVE drop_frames(_, _)
drop_frames(k, s) ==
    IF s = <<>>
    THEN [k |-> k, panic |-> FALSE]
    ELSE LET r == frame_dealloc(k, Head(s))
         IN  IF r.panic THEN r ELSE drop_frames(r.k, Tail(s))

\* n times: let frame = frame_alloc().unwrap(); v.push(frame);
RECURSIVE alloc_n(_, _, _)
alloc_n(k, s, n) ==
    IF n = 0
    THEN [k |-> k, v |-> s, panic |-> FALSE]
    ELSE LET r == frame_alloc(k)
         IN  IF r.ret = None
             THEN [k |-> r.k, v |-> s, panic |-> TRUE]
             ELSE alloc_n(r.k, Append(s, r.ret), n - 1)

Range(s) == {s[i] : i \in 1..Len(s)}

\* frame_allocator_test with its literal 5 generalised to n
frame_allocator_test(k, n) ==
    LET a1 == alloc_n(k, <<>>, n)
        c  == drop_frames(a1.k, a1.v)
        a2 == alloc_n(c.k, <<>>, n)
        d  == drop_frames(a2.k, a2.v)
    IN  IF a1.panic THEN [k |-> a1.k, panic |-> TRUE, first |-> Range(a1.v), second |-> {}]
        ELSE IF c.panic THEN [k |-> c.k, panic |-> TRUE, first |-> Range(a1.v), second |-> {}]
        ELSE IF a2.panic THEN [k |-> a2.k, panic |-> TRUE, first |-> Range(a1.v), second |-> Range(a2.v)]
        ELSE [k |-> d.k, panic |-> d.panic, first |-> Range(a1.v), second |-> Range(a2.v)]

(***************************************************************************)
(* Page table entries. An entry is the word ppn << 10 | flags; the mask of *)
(* ppn() to 44 bits is the identity on the words of the model, which are   *)
(* all below 2^31.                                                         *)
(***************************************************************************)
PTE_V == 1
PTE_R == 2
PTE_W == 4
PTE_X == 8
PTE_U == 16

\* flags | PTEFlags::V
WithV(flags) == IF flags % 2 = 1 THEN flags ELSE flags + PTE_V

PageTableEntry_new(ppn, flags) == ppn * 1024 + flags

PageTableEntry_empty == 0

pte_ppn(bits) == bits \div 1024

pte_flags(bits) == bits % 256

is_valid(bits) == pte_flags(bits) % 2 = 1

(***************************************************************************)
(* VirtPageNum::indexes (os4-ref) and VirtPageNum::indexex (os4 draft).    *)
(***************************************************************************)
indexes_low_first(vpn) ==
    <<vpn % 512, (vpn \div 512) % 512, (vpn \div 262144) % 512>>

indexes(vpn) ==
    <<(vpn \div 262144) % 512, (vpn \div 512) % 512, vpn % 512>>

\* x & 0x11_1111_1111 for x below 2^31: the bits 0, 4, 8, ..., 28 of x
And_0x11_1111_1111(x) ==
    LET Bit(k) == (x \div (2 ^ (4 * k))) % 2
        RECURSIVE Sum(_)
        Sum(k) == IF k < 0 THEN 0 ELSE Bit(k) * (2 ^ (4 * k)) + Sum(k - 1)
    IN  Sum(7)

indexex(vpn) ==
    <<And_0x11_1111_1111(vpn \div 262144), And_0x11_1111_1111(vpn \div 512),
      And_0x11_1111_1111(vpn)>>

Idxs(src, vpn) == IF src = "os4" THEN indexex(vpn) ELSE indexes(vpn)

(***************************************************************************)
(* PageTable. A page table is [root_ppn, frames]; its nodes live in mem.   *)
(* An operation takes the heap state k = [fa, mem] and the table and       *)
(* returns them as they are when it returns or panics.                     *)
(***************************************************************************)
NoPageTable == [root_ppn |-> None, frames |-> <<>>]

Frame(m, ppn) == IF ppn \in DOMAIN m THEN m[ppn] ELSE ZeroFrame

Store(m, ppn, i, bits) ==
    IF ppn \in DOMAIN m THEN [m EXCEPT ![ppn] = Put(@, i, bits)] ELSE m

PageTable_new_untracked(k) ==
    LET r == frame_alloc(k)
    IN  IF r.ret = None
        THEN [k |-> r.k, pt |-> NoPageTable, panic |-> TRUE]
        ELSE [k |-> r.k, pt |-> [root_ppn |-> r.ret, frames |-> <<>>], panic |-> FALSE]

PageTable_new(k) ==
    LET r == frame_alloc(k)
    IN  IF r.ret = None
        THEN [k |-> r.k, pt |-> NoPageTable, panic |-> TRUE]
        ELSE [k |-> r.k, pt |-> [root_ppn |-> r.ret, frames |-> <<r.ret>>], panic |-> FALSE]

\* The loop of find_pte_create from level i at node ppn. An index beyond
\* the 512 entries of a node fails the slice's bounds check.
RECURSIVE walk_create(_, _, _, _, _)
walk_create(k, t, idxs, i, ppn) ==
    IF idxs[i + 1] >= 512
    THEN [k |-> k, pt |-> t, panic |-> TRUE, node |-> ppn, idx |-> 0]
    ELSE IF i = 2
    THEN [k |-> k, pt |-> t, panic |-> FALSE, node |-> ppn, idx |-> idxs[3]]
    ELSE LET pte == Word(Frame(k.mem, ppn), idxs[i + 1])
         IN  IF is_valid(pte)
             THEN walk_create(k, t, idxs, i + 1, pte_ppn(pte))
             ELSE LET r == frame_alloc(k)
                  IN  IF r.ret = None
                      THEN [k |-> r.k, pt |-> t, panic |-> TRUE, node |-> ppn, idx |-> 0]
                      ELSE walk_create(
                              [r.k EXCEPT !.mem = Store(@, ppn, idxs[i + 1],
                                                        PageTableEntry_new(r.ret, PTE_V))],
                              [t EXCEPT !.frames = Append(@, r.ret)],
                              idxs, i + 1, r.ret)

find_pte_create(k, t, src, vpn) == walk_create(k, t, Idxs(src, vpn), 0, t.root_ppn)

\* The loop of find_pte: None, or the leaf slot [node, idx].
RECURSIVE walk(_, _, _, _)
walk(m, idxs, i, ppn) ==
    IF idxs[i + 1] >= 512
    THEN [found |-> FALSE, panic |-> TRUE, node |-> ppn, idx |-> 0]
    ELSE IF i = 2
    THEN [found |-> TRUE, panic |-> FALSE, node |-> ppn, idx |-> idxs[3]]
    ELSE LET pte == Word(Frame(m, ppn), idxs[i + 1])
         IN  IF ~is_valid(pte)
             THEN [found |-> FALSE, panic |-> FALSE, node |-> ppn, idx |-> 0]
             ELSE walk(m, idxs, i + 1, pte_ppn(pte))

find_pte(m, t, src, vpn) == walk(m, Idxs(src, vpn), 0, t.root_ppn)

translate_valid_only(m, t, src, vpn) ==
    LET r == find_pte(m, t, src, vpn)
    IN  IF r.found /\ is_valid(Word(Frame(m, r.node), r.idx))
        THEN Word(Frame(m, r.node), r.idx) ELSE None

\* translate: the copy of the leaf entry (its bits), or None
translate(m, t, src, vpn) ==
    LET r == find_pte(m, t, src, vpn)
    IN  IF r.found THEN Word(Frame(m, r.node), r.idx) ELSE None

map_overwrite(k, t, src, vpn, ppn, flags) ==
    LET r == find_pte_create(k, t, src, vpn)
    IN  IF r.panic
        THEN [k |-> r.k, pt |-> r.pt, panic |-> TRUE]
        ELSE [k |-> [r.k EXCEPT !.mem = Store(@, r.node, r.idx,
                                              PageTableEntry_new(ppn, WithV(flags)))],
              pt |-> r.pt, panic |-> FALSE]

map_no_valid_bit(k, t, src, vpn, ppn, flags) ==
    LET r == find_pte_create(k, t, src, vpn)
    IN  IF r.panic \/ is_valid(Word(Frame(r.k.mem, r.node), r.idx))
        THEN [k |-> r.k, pt |-> r.pt, panic |-> TRUE]
        ELSE [k |-> [r.k EXCEPT !.mem = Store(@, r.node, r.idx,
                                              PageTableEntry_new(ppn, flags))],
              pt |-> r.pt, panic |-> FALSE]

map(k, t, src, vpn, ppn, flags) ==
    LET r == find_pte_create(k, t, src, vpn)
    IN  IF r.panic \/ is_valid(Word(Frame(r.k.mem, r.node), r.idx))
        THEN [k |-> r.k, pt |-> r.pt, panic |-> TRUE]
        ELSE [k |-> [r.k EXCEPT !.mem = Store(@, r.node, r.idx,
                                              PageTableEntry_new(ppn, WithV(flags)))],
              pt |-> r.pt, panic |-> FALSE]

unmap_ref(k, t, src, vpn) ==
    LET r == find_pte_create(k, t, src, vpn)
    IN  IF r.panic \/ ~is_valid(Word(Frame(r.k.mem, r.node), r.idx))
        THEN [k |-> r.k, pt |-> r.pt, panic |-> TRUE]
        ELSE [k |-> [r.k EXCEPT !.mem = Store(@, r.node, r.idx, PageTableEntry_empty)],
              pt |-> r.pt, panic |-> FALSE]

\* the os4 draft asserts !pte.is_valid() in unmap
unmap_os4(k, t, src, vpn) ==
    LET r == find_pte_create(k, t, src, vpn)
    IN  IF r.panic \/ is_valid(Word(Frame(r.k.mem, r.node), r.idx))
        THEN [k |-> r.k, pt |-> r.pt, panic |-> TRUE]
        ELSE [k |-> [r.k EXCEPT !.mem = Store(@, r.node, r.idx, PageTableEntry_empty)],
              pt |-> r.pt, panic |-> FALSE]

unmap(k, t, src, vpn) ==
    IF src = "os4" THEN unmap_os4(k, t, src, vpn) ELSE unmap_ref(k, t, src, vpn)

(***************************************************************************)
(* Initial states: the objects as constructed, before mm::init.            *)
(***************************************************************************)
K == [fa |-> fa, mem |-> mem]

\* KERNEL_SPACE and TASK_MANAGER are lazy statics: nothing exists before first use
NoMemorySet == [page_table |-> NoPageTable, areas |-> <<>>]
NoTaskManager == [num_app |-> 0, tasks |-> <<>>, current_task |-> 0]

InitCommon ==
    /\ mode = "boot"
    /\ fa = StackFrameAllocator_new
    /\ v = <<>>
    /\ pt = NoPageTable
    /\ apps = <<>>
    /\ kernel_space = NoMemorySet
    /\ tm = NoTaskManager
    /\ memory_set = NoMemorySet
    /\ last = [op |-> "none"]

InitFrames ==
    /\ InitCommon
    /\ \E l \in MinPPN..(MinPPN + 1), n \in 0..MaxFrames : phys = [l |-> l, r |-> l + n]
    /\ fa_src \in {"os4-ref", "os4"}
    /\ pt_src = "os4-ref"
    /\ \E c \in {ZeroFrame, StaleFrame} : mem = [p \in phys.l..(phys.r - 1) |-> c]

(***************************************************************************)
(* Actions of the allocator specifications.                                *)
(***************************************************************************)
\* init_frame_allocator, called once from mm::init
Boot ==
    /\ mode = "boot"
    /\ fa' = IF fa_src = "os4" THEN init_os4(fa, phys.l, phys.r) ELSE init(fa, phys.l, phys.r)
    /\ mode' = "run"
    /\ last' = [op |-> "init"]
    /\ UNCHANGED <<phys, fa_src, pt_src, mem, v, pt, apps, kernel_space, tm, memory_set>>

\* let frame = frame_alloc(); the tracker, if any, is kept in v
FrameAlloc ==
    /\ mode = "run"
    /\ LET r == frame_alloc(K)
       IN  /\ fa' = r.k.fa
           /\ mem' = r.k.mem
           /\ v' = IF r.ret = None THEN v ELSE Append(v, r.ret)
           /\ last' = [op |-> "frame_alloc", ret |-> r.ret,
                       dirty |-> Frame(mem, r.ret) # ZeroFrame]
    /\ UNCHANGED <<phys, fa_src, pt_src, mode, pt, apps, kernel_space, tm, memory_set>>

\* the owner of the tracker v[i] writes into its frame through
\* ppn.get_bytes_array()
WriteFrame(i) ==
    /\ mode = "run"
    /\ i \in 1..Len(v)
    /\ Frame(mem, v[i]) # StaleFrame
    /\ mem' = [mem EXCEPT ![v[i]] = StaleFrame]
    /\ last' = [op |-> "write", arg |-> v[i]]
    /\ UNCHANGED <<phys, fa_src, pt_src, mode, fa, v, pt, apps, kernel_space, tm, memory_set>>

\* drop(v.remove(i))
DropFrame(i) ==
    /\ mode = "run"
    /\ i \in 1..Len(v)
    /\ LET r == frame_dealloc(K, v[i])
       IN  /\ fa' = r.k.fa
           /\ mem' = r.k.mem
           /\ mode' = IF r.panic THEN "panic" ELSE mode
           /\ last' = [op |-> "drop", arg |-> v[i], panic |-> r.panic]
    /\ v' = SubSeq(v, 1, i - 1) \o SubSeq(v, i + 1, Len(v))
    /\ UNCHANGED <<phys, fa_src, pt_src, pt, apps, kernel_space, tm, memory_set>>

FrameAllocatorTest(n) ==
    /\ mode = "run"
    /\ LET r == frame_allocator_test(K, n)
       IN  /\ fa' = r.k.fa
           /\ mem' = r.k.mem
           /\ mode' = IF r.panic THEN "panic" ELSE mode
           /\ last' = [op |-> "frame_allocator_test", n |-> n, panic |-> r.panic,
                       first |-> r.first, second |-> r.second]
    /\ UNCHANGED <<phys, fa_src, pt_src, v, pt, apps, kernel_space, tm, memory_set>>

NextFrames ==
    \/ Boot
    \/ FrameAlloc
    \/ \E i \in 1..MaxFrames + 1 : DropFrame(i)
    \/ \E i \in 1..MaxFrames + 1 : WriteFrame(i)
    \/ \E n \in 1..MaxTestN : FrameAllocatorTest(n)

SpecFrames == InitFrames /\ [][NextFrames]_vars

(***************************************************************************)
(* The allocator driven through its trait API, with any page number given  *)
(* to dealloc.                                                             *)
(***************************************************************************)
InitStack ==
    /\ InitCommon
    /\ \E l \in MinPPN..(MinPPN + 1), n \in 0..MaxStackFrames : phys = [l |-> l, r |-> l + n]
    /\ fa_src \in {"os4-ref", "os4"}
    /\ pt_src = "os4-ref"
    /\ mem = [p \in phys.l..(phys.r - 1) |-> ZeroFrame]

\* the page numbers given to dealloc: the range, one below it and two above it
DeallocArgs == (phys.l - 1)..(phys.r + 1)

\* FRAME_ALLOCATOR.exclusive_access().alloc()
Alloc ==
    /\ mode = "run"
    /\ LET r == alloc(fa)
       IN  /\ fa' = r.fa
           /\ last' = [op |-> "alloc", ret |-> r.ret]
    /\ UNCHANGED <<phys, fa_src, pt_src, mode, mem, v, pt, apps, kernel_space, tm, memory_set>>

\* FRAME_ALLOCATOR.exclusive_access().dealloc(ppn)
Dealloc(ppn) ==
    /\ mode = "run"
    /\ LET r == dealloc(fa, ppn)
       IN  /\ fa' = r.fa
           /\ mode' = IF r.panic THEN "panic" ELSE mode
           /\ last' = [op |-> "dealloc", arg |-> ppn, panic |-> r.panic]
    /\ UNCHANGED <<phys, fa_src, pt_src, mem, v, pt, apps, kernel_space, tm, memory_set>>

NextStack ==
    \/ Boot
    \/ Alloc
    \/ \E ppn \in DeallocArgs : Dealloc(ppn)

SpecStack == InitStack /\ [][NextStack]_vars

(***************************************************************************)
(* Claims about the frame allocator.                                       *)
(***************************************************************************)
Avail(a) == (a.end - a.current) + Len(a.recycled)

\* C1: after any sequence of frame_alloc calls and FrameTracker drops no
\* physical page number is held by two live FrameTrackers at the same time.
C1_NoPageHeldTwice ==
    \A i, j \in 1..Len(v) : i # j => v[i] # v[j]

\* C1 witness: two trackers are live and the last one was handed a page
\* taken from the recycled stack (it is not the page below current).
C1_Witness ==
    /\ Len(v) >= 2
    /\ last.op = "frame_alloc"
    /\ last.ret # None
    /\ last.ret # fa.current - 1

\* C2: for every n not exceeding what the allocator can still hand out,
\* allocating n frames, freeing all n and allocating n frames again returns
\* exactly the same set of n page numbers, and nothing aborts.
C2_AllocFreeAllocSameSet ==
    [][\A n \in 1..(MaxTestN + 1) :
         (FrameAllocatorTest(n) /\ n <= Avail(fa))
            => /\ ~last'.panic
               /\ last'.first = last'.second
               /\ Cardinality(last'.first) = n]_vars

\* C2 witness: a test with n >= 2 has run to its end.
C2_Witness ==
    /\ last.op = "frame_allocator_test"
    /\ ~last.panic
    /\ last.n >= 2
    /\ Cardinality(last.second) = last.n

\* C3: dealloc(ppn) aborts and leaves the allocator unchanged whenever ppn is
\* at or beyond current or already in the recycled list; in every other case
\* it pushes ppn onto the recycled list and does not abort.
C3_DeallocContract ==
    [][\A ppn \in DeallocArgs :
         Dealloc(ppn) =>
            IF ppn >= fa.current \/ ppn \in Range(fa.recycled)
            THEN mode' = "panic" /\ fa' = fa
            ELSE /\ mode' = "run"
                 /\ fa'.recycled = Append(fa.recycled, ppn)
                 /\ fa'.current = fa.current /\ fa'.end = fa.end]_vars

\* C3 witness: a double free has aborted with the page still once in the list.
C3_Witness ==
    /\ mode = "panic"
    /\ last.op = "dealloc"
    /\ last.arg < fa.current
    /\ Cardinality({i \in 1..Len(fa.recycled) : fa.recycled[i] = last.arg}) = 1

\* C4: after init(l, r) with l <= r the allocator manages exactly [l, r):
\* every live page is in [l, r), and frame_alloc returns None exactly when
\* the recycled list is empty and all r - l pages are live.
C4_ManagesRange ==
    [][(mode = "run" /\ FrameAlloc) =>
         /\ (last'.ret = None) <=> (fa.recycled = <<>> /\ Len(v) = phys.r - phys.l)
         /\ Range(v') \subseteq phys.l..(phys.r - 1)]_vars

\* C4 restricted to the reference copy of init (os4-ref/src/mm/frame_allocator.rs)
C4_ManagesRange_ref ==
    [][(mode = "run" /\ FrameAlloc /\ fa_src = "os4-ref") =>
         /\ (last'.ret = None) <=> (fa.recycled = <<>> /\ Len(v) = phys.r - phys.l)
         /\ Range(v') \subseteq phys.l..(phys.r - 1)]_vars

(***************************************************************************)
(* One page table driven through PageTable::new / map / unmap / translate  *)
(* and dropped.                                                            *)
(***************************************************************************)
MaxPTFrames == 6       \* largest capacity r - l of the page table specification

\* Virtual page numbers with shared and with different index prefixes; the
\* last one, 2^27, differs from 0 only above the low 27 bits.
PTVpns == {0, 2, 512, 262144, 134217728}

\* <<ppn, flags>> given to map: R|W and R|X|U
MapArgs == {<<7, PTE_R + PTE_W>>, <<8, PTE_R + PTE_X + PTE_U>>}

InitPT ==
    /\ InitCommon
    /\ \E n \in 0..MaxPTFrames : phys = [l |-> MinPPN, r |-> MinPPN + n]
    /\ fa_src = "os4-ref"
    /\ pt_src \in {"os4-ref", "os4"}
    /\ \E c \in {ZeroFrame, StaleFrame} : mem = [p \in phys.l..(phys.r - 1) |-> c]

HasTable == pt.root_ppn # None

\* let page_table = PageTable::new();
PageTableNew ==
    /\ mode = "run"
    /\ ~HasTable
    /\ LET r == PageTable_new(K)
       IN  /\ fa' = r.k.fa
           /\ mem' = r.k.mem
           /\ pt' = r.pt
           /\ mode' = IF r.panic THEN "panic" ELSE mode
           /\ last' = [op |-> "new", panic |-> r.panic]
    /\ UNCHANGED <<phys, fa_src, pt_src, v, apps, kernel_space, tm, memory_set>>

\* page_table.map(vpn, ppn, flags)
Map(vpn, ppn, flags) ==
    /\ mode = "run"
    /\ HasTable
    /\ LET r == map(K, pt, pt_src, vpn, ppn, flags)
       IN  /\ fa' = r.k.fa
           /\ mem' = r.k.mem
           /\ pt' = r.pt
           /\ mode' = IF r.panic THEN "panic" ELSE mode
           /\ last' = [op |-> "map", vpn |-> vpn, ppn |-> ppn, flags |-> flags,
                       panic |-> r.panic]
    /\ UNCHANGED <<phys, fa_src, pt_src, v, apps, kernel_space, tm, memory_set>>

\* page_table.unmap(vpn)
Unmap(vpn) ==
    /\ mode = "run"
    /\ HasTable
    /\ LET r == unmap(K, pt, pt_src, vpn)
       IN  /\ fa' = r.k.fa
           /\ mem' = r.k.mem
           /\ pt' = r.pt
           /\ mode' = IF r.panic THEN "panic" ELSE mode
           /\ last' = [op |-> "unmap", vpn |-> vpn, panic |-> r.panic]
    /\ UNCHANGED <<phys, fa_src, pt_src, v, apps, kernel_space, tm, memory_set>>

\* page_table.translate(vpn)
Translate(vpn) ==
    /\ mode = "run"
    /\ HasTable
    /\ last' = [op |-> "translate", vpn |-> vpn, ret |-> translate(mem, pt, pt_src, vpn)]
    /\ UNCHANGED <<phys, fa_src, pt_src, mode, fa, mem, v, pt, apps, kernel_space, tm, memory_set>>

\* drop(page_table): the trackers in frames are dropped first to last
PageTableDrop ==
    /\ mode = "run"
    /\ HasTable
    /\ LET r == drop_frames(K, pt.frames)
       IN  /\ fa' = r.k.fa
           /\ mem' = r.k.mem
           /\ mode' = IF r.panic THEN "panic" ELSE mode
           /\ last' = [op |-> "drop_table", panic |-> r.panic]
    /\ pt' = NoPageTable
    /\ UNCHANGED <<phys, fa_src, pt_src, v, apps, kernel_space, tm, memory_set>>

NextPT ==
    \/ Boot
    \/ PageTableNew
    \/ \E vpn \in PTVpns, a \in MapArgs : Map(vpn, a[1], a[2])
    \/ \E vpn \in PTVpns : Unmap(vpn)
    \/ \E vpn \in PTVpns : Translate(vpn)

SpecPT == InitPT /\ [][NextPT]_vars

(***************************************************************************)
(* Claims about the page table.                                            *)
(***************************************************************************)
\* translate(vpn) on the table of the current state and of the next state
Tr(vpn) == translate(mem, pt, pt_src, vpn)
TrNext(vpn) == translate(mem', pt', pt_src', vpn)

Mapped(e) == e # None /\ is_valid(e)

\* two virtual page numbers with the same low 27 bits
SameLow27(a, b) == a % 134217728 = b % 134217728

\* C5 as stated: after map(v, p, flags), translate(v) returns an entry with
\* page number p and flags exactly flags | V, and keeps returning that entry
\* across any map / unmap of other virtual page numbers until unmap(v).
C5_MapThenTranslate ==
    [][/\ \A vpn \in PTVpns, a \in MapArgs :
            (Map(vpn, a[1], a[2]) /\ mode' = "run")
               => /\ TrNext(vpn) # None
                  /\ pte_ppn(TrNext(vpn)) = a[1]
                  /\ pte_flags(TrNext(vpn)) = WithV(a[2])
       /\ \A vpn \in PTVpns :
            (HasTable /\ Mapped(Tr(vpn)) /\ ~Unmap(vpn)) => TrNext(vpn) = Tr(vpn)]_vars

\* C5 amended: the entry of v stays across any map / unmap of virtual page
\* numbers that differ from v in their low 27 bits; unmap(w) of a w that
\* agrees with v in the low 27 bits is an unmap of v.
C5_MapThenTranslate_Low27 ==
    [][/\ \A vpn \in PTVpns, a \in MapArgs :
            (Map(vpn, a[1], a[2]) /\ mode' = "run")
               => /\ TrNext(vpn) # None
                  /\ pte_ppn(TrNext(vpn)) = a[1]
                  /\ pte_flags(TrNext(vpn)) = WithV(a[2])
       /\ \A vpn \in PTVpns :
            (/\ HasTable
             /\ Mapped(Tr(vpn))
             /\ ~\E w \in PTVpns : SameLow27(w, vpn) /\ Unmap(w))
               => TrNext(vpn) = Tr(vpn)]_vars

\* C5 witness: a page is still mapped after the unmap of another page that
\* shares no leaf slot with it has returned.
C5_Witness ==
    /\ mode = "run"
    /\ last.op = "unmap"
    /\ ~last.panic
    /\ \E vpn \in PTVpns : ~SameLow27(vpn, last.vpn) /\ Mapped(Tr(vpn))

\* C6: after unmap(v) of a mapped v, translate(v) returns no entry (None),
\* and goes on doing so until v is mapped again.
C6_UnmapThenNotFound ==
    [][/\ \A vpn \in PTVpns : (Unmap(vpn) /\ mode' = "run") => TrNext(vpn) = None
       /\ \A vpn \in PTVpns :
            (HasTable /\ Tr(vpn) = None /\ ~\E a \in MapArgs : Map(vpn, a[1], a[2]))
               => TrNext(vpn) = None]_vars

\* C7: map(v, p, flags) on a v whose leaf entry is valid aborts and leaves
\* the entry (and the whole table) as it was.
C7_MapOnValidAborts ==
    [][\A vpn \in PTVpns, a \in MapArgs :
         (Map(vpn, a[1], a[2]) /\ Mapped(Tr(vpn)))
            => /\ mode' = "panic"
               /\ TrNext(vpn) = Tr(vpn)
               /\ mem' = mem /\ pt' = pt /\ fa' = fa]_vars

\* C7 witness: a map that would have replaced a valid entry by an entry with
\* another page number has aborted.
C7_Witness ==
    /\ mode = "panic"
    /\ last.op = "map"
    /\ Mapped(Tr(last.vpn))
    /\ pte_ppn(Tr(last.vpn)) # last.ppn

\* C8: unmap(v) succeeds exactly when the leaf entry of v is valid, and then
\* sets it to the all-zero entry; when the leaf entry is not valid it aborts.
C8_UnmapContract ==
    [][\A vpn \in PTVpns :
         Unmap(vpn) =>
            IF Mapped(Tr(vpn))
            THEN mode' = "run" /\ TrNext(vpn) = PageTableEntry_empty
            ELSE mode' = "panic"]_vars

\* C8 restricted to the reference copy of unmap (os4-ref/src/mm/page_table.rs)
C8_UnmapContract_ref ==
    [][\A vpn \in PTVpns :
         (Unmap(vpn) /\ pt_src = "os4-ref") =>
            IF Mapped(Tr(vpn))
            THEN mode' = "run" /\ TrNext(vpn) = PageTableEntry_empty
            ELSE mode' = "panic"]_vars

(***************************************************************************)
(* Virtual addresses. A usize address is kept as [page, off] with          *)
(* address = page * PAGE_SIZE + off, because the addresses at the top of   *)
(* the address space do not fit the integers of the model. The page        *)
(* numbers of the top pages are kept modulo 2^27, the bits the page table  *)
(* walk reads: TRAMPOLINE is page 2^27 - 1 for 2^52 - 1.                   *)
(***************************************************************************)
PAGE_SIZE == 4096
USER_STACK_SIZE == 8192
KERNEL_STACK_SIZE == 8192
TRAMPOLINE_VPN == 134217727
TRAP_CONTEXT_VPN == TRAMPOLINE_VPN - 1

\* VirtAddr::from(n) for a usize n
VirtAddr_from(n) == [page |-> n \div PAGE_SIZE, off |-> n % PAGE_SIZE]

\* From<VirtPageNum> for VirtAddr
VirtAddr_of_vpn(vpn) == [page |-> vpn, off |-> 0]

TRAMPOLINE == VirtAddr_of_vpn(TRAMPOLINE_VPN)
TRAP_CONTEXT == VirtAddr_of_vpn(TRAP_CONTEXT_VPN)

\* a + n for an address a and a usize n
va_add(a, n) == [page |-> a.page + (a.off + n) \div PAGE_SIZE, off |-> (a.off + n) % PAGE_SIZE]

\* a > b on addresses
va_gt(a, b) == a.page > b.page \/ (a.page = b.page /\ a.off > b.off)

page_offset(a) == a.off

floor(a) == a.page

\* (addr - 1 + PAGE_SIZE) / PAGE_SIZE in os4-ref, (addr + PAGE_SIZE - 1) / PAGE_SIZE
\* in the os4 draft; the two agree on every address above 0, and at 0 this is
\* the value of the draft and of a build of os4-ref without overflow checks
\* (VirtAddr_ceil has the build with them)
ceil(a) == a.page + (a.off - 1 + PAGE_SIZE) \div PAGE_SIZE

(***************************************************************************)
(* MapArea: [vpn_range: [l, r], data_frames: vpn -> ppn, map_type,         *)
(* map_perm]. An operation returns [k, pt, area, panic].                   *)
(***************************************************************************)
\* let x = ..; F(x)
With(x, F(_)) == F(x)

MapArea_new(start_va, end_va, map_type, map_perm) ==
    [vpn_range |-> [l |-> floor(start_va), r |-> ceil(end_va)],
     data_frames |-> <<>>,
     map_type |-> map_type,
     map_perm |-> map_perm]

\* SimpleRange::new asserts start <= end
RangeOk(area) == area.vpn_range.l <= area.vpn_range.r

\* map_one without self.data_frames.insert(vpn, frame)
map_one_untracked(k, t, area, src, vpn) ==
    IF area.map_type = "Identical"
    THEN With(map(k, t, src, vpn, vpn, area.map_perm), LAMBDA m :
            [k |-> m.k, pt |-> m.pt, area |-> area, panic |-> m.panic])
    ELSE With(frame_alloc(k), LAMBDA f :
            IF f.ret = None
            THEN [k |-> f.k, pt |-> t, area |-> area, panic |-> TRUE]
            ELSE With(map(f.k, t, src, vpn, f.ret, area.map_perm), LAMBDA m :
                    [k |-> m.k, pt |-> m.pt, area |-> area, panic |-> m.panic]))

\* page_table.map / unmap return nothing in page_table.rs, so the success
\* flag memory_set.rs passes on is true whenever they return.
map_one(k, t, area, src, vpn) ==
    IF area.map_type = "Identical"
    THEN With(map(k, t, src, vpn, vpn, area.map_perm), LAMBDA m :
            [k |-> m.k, pt |-> m.pt, area |-> area, panic |-> m.panic])
    ELSE With(frame_alloc(k), LAMBDA f :
            IF f.ret = None
            THEN [k |-> f.k, pt |-> t, area |-> area, panic |-> TRUE]
            ELSE With(map(f.k, t, src, vpn, f.ret, area.map_perm), LAMBDA m :
                    [k |-> m.k, pt |-> m.pt,
                     area |-> [area EXCEPT !.data_frames = (vpn :> f.ret) @@ @],
                     panic |-> m.panic]))

\* data_frames.remove(&vpn): the area without the tracker of vpn
WithoutFrame(area, vpn) ==
    [area EXCEPT !.data_frames = [p \in (DOMAIN @) \ {vpn} |-> @[p]]]

\* self.data_frames.remove(&vpn) of unmap_one: the FrameTracker the map gives
\* back is dropped at the end of the statement; the result is [k, area, panic]
data_frames_remove(k, area, vpn) ==
    IF area.map_type = "Framed" /\ vpn \in DOMAIN area.data_frames
    THEN With(frame_dealloc(k, area.data_frames[vpn]), LAMBDA d :
            [k |-> d.k, area |-> WithoutFrame(area, vpn), panic |-> d.panic])
    ELSE [k |-> k, area |-> area, panic |-> FALSE]

unmap_one(k, t, area, src, vpn) ==
    With(data_frames_remove(k, area, vpn), LAMBDA d :
        IF d.panic
        THEN [k |-> d.k, pt |-> t, area |-> d.area, panic |-> TRUE]
        ELSE With(unmap(d.k, t, src, vpn), LAMBDA u :
                [k |-> u.k, pt |-> u.pt, area |-> d.area, panic |-> u.panic]))

\* for vpn in self.vpn_range { map_one(vpn) }, from page vpn on
RECURSIVE map_from(_, _, _, _, _)
map_from(k, t, area, src, vpn) ==
    IF vpn >= area.vpn_range.r
    THEN [k |-> k, pt |-> t, area |-> area, panic |-> FALSE]
    ELSE With(map_one(k, t, area, src, vpn), LAMBDA r :
            IF r.panic THEN r ELSE map_from(r.k, r.pt, r.area, src, vpn + 1))

MapArea_map(k, t, area, src) == map_from(k, t, area, src, area.vpn_range.l)

RECURSIVE unmap_from(_, _, _, _, _)
unmap_from(k, t, area, src, vpn) ==
    IF vpn >= area.vpn_range.r
    THEN [k |-> k, pt |-> t, area |-> area, panic |-> FALSE]
    ELSE With(unmap_one(k, t, area, src, vpn), LAMBDA r :
            IF r.panic THEN r ELSE unmap_from(r.k, r.pt, r.area, src, vpn + 1))

MapArea_unmap(k, t, area, src) == unmap_from(k, t, area, src, area.vpn_range.l)

\* Data to copy is [len, words]: len bytes, of which words holds the non-zero
\* eight-byte words by their index in the data.
\* Option::None for the data of push is NoData.
NoData == [len |-> -1, words |-> <<>>]

\* dst[..n].copy_from_slice(src) on the words of one frame: the first n bytes
\* of the frame become page i of the data
CopyPage(frame, data, i, n) ==
    LET covered == {w \in 0..511 : 8 * w < n}
        set     == {w \in covered : Word(data.words, 512 * i + w) # 0}
    IN  [w \in ((DOMAIN frame) \ covered) \cup set |->
            IF w \in set THEN Word(data.words, 512 * i + w) ELSE frame[w]]

Min(a, b) == IF a < b THEN a ELSE b

\* one pass of the loop of copy_data: the frame behind entry e gets the page
\* of the data that starts at byte start
CopyTo(m, e, data, start) ==
    IF pte_ppn(e) \in DOMAIN m
    THEN [m EXCEPT ![pte_ppn(e)] =
             CopyPage(@, data, start \div PAGE_SIZE,
                      Min(data.len, start + PAGE_SIZE) - start)]
    ELSE m

\* the loop of copy_data at byte offset start of the data
RECURSIVE copy_from(_, _, _, _, _, _)
copy_from(m, t, src, data, start, vpn) ==
    With(translate(m, t, src, vpn), LAMBDA e :
        IF e = None
        THEN [mem |-> m, panic |-> TRUE]
        ELSE IF start + PAGE_SIZE >= data.len
        THEN [mem |-> CopyTo(m, e, data, start), panic |-> FALSE]
        ELSE copy_from(CopyTo(m, e, data, start), t, src, data, start + PAGE_SIZE, vpn + 1))

copy_data(m, t, area, src, data) ==
    IF area.map_type # "Framed"
    THEN [mem |-> m, panic |-> TRUE]
    ELSE copy_from(m, t, src, data, 0, area.vpn_range.l)

(***************************************************************************)
(* MemorySet: [page_table, areas]. An operation returns [k, ms, panic].    *)
(***************************************************************************)
MapPermission_R == 2
MapPermission_W == 4
MapPermission_X == 8
MapPermission_U == 16

\* The kernel image: .text (two pages, the second is the trampoline),
\* .rodata, .data and .bss of one page each, from page 0x80200.
stext == 524800
strampoline == stext + 1
etext == stext + 2
srodata == etext
erodata == srodata + 1
sdata == erodata
edata == sdata + 1
sbss_with_stack == edata
ebss == sbss_with_stack + 1
ekernel == ebss

new_bare(k) ==
    With(PageTable_new(k), LAMBDA r :
        [k |-> r.k, ms |-> [page_table |-> r.pt, areas |-> <<>>], panic |-> r.panic])

\* the end of push: copy the data, if any, and push the area
push_mapped(ms, m, data, src) ==
    With(IF data = NoData
         THEN [mem |-> m.k.mem, panic |-> FALSE]
         ELSE copy_data(m.k.mem, m.pt, m.area, src, data), LAMBDA c :
        [k |-> [m.k EXCEPT !.mem = c.mem],
         ms |-> [page_table |-> m.pt,
                 areas |-> IF c.panic THEN ms.areas ELSE Append(ms.areas, m.area)],
         panic |-> c.panic])

push(k, ms, map_area, data, src) ==
    With(MapArea_map(k, ms.page_table, map_area, src), LAMBDA m :
        IF m.panic
        THEN [k |-> m.k, ms |-> [ms EXCEPT !.page_table = m.pt], panic |-> TRUE]
        ELSE push_mapped(ms, m, data, src))

\* push of a MapArea::new(..) whose range may fail the assertion of SimpleRange::new
push_new(k, ms, map_area, data, src) ==
    IF RangeOk(map_area)
    THEN push(k, ms, map_area, data, src)
    ELSE [k |-> k, ms |-> ms, panic |-> TRUE]

insert_framed_area(k, ms, start_va, end_va, permission, src) ==
    push_new(k, ms, MapArea_new(start_va, end_va, "Framed", permission), NoData, src)

\* map_trampoline with a writable trampoline
map_trampoline_writable(k, ms, src) ==
    With(map(k, ms.page_table, src, TRAMPOLINE_VPN, strampoline, PTE_R + PTE_W + PTE_X),
         LAMBDA m :
        [k |-> m.k, ms |-> [ms EXCEPT !.page_table = m.pt], panic |-> m.panic])

map_trampoline(k, ms, src) ==
    With(map(k, ms.page_table, src, TRAMPOLINE_VPN, strampoline, PTE_R + PTE_X), LAMBDA m :
        [k |-> m.k, ms |-> [ms EXCEPT !.page_table = m.pt], panic |-> m.panic])

\* memory_set.push(area, data) for each [area, data] of a list, in order
RECURSIVE push_all(_, _, _, _)
push_all(k, ms, list, src) ==
    IF list = <<>>
    THEN [k |-> k, ms |-> ms, panic |-> FALSE, max_end_vpn |-> 0]
    ELSE With(push_new(k, ms, Head(list).area, Head(list).data, src), LAMBDA r :
            IF r.panic
            THEN [k |-> r.k, ms |-> r.ms, panic |-> TRUE, max_end_vpn |-> 0]
            ELSE IF Len(list) = 1
            THEN [k |-> r.k, ms |-> r.ms, panic |-> FALSE,
                  max_end_vpn |-> Head(list).area.vpn_range.r]
            ELSE push_all(r.k, r.ms, Tail(list), src))

\* new_kernel mapping .text writable as well
KernelAreas_text_writable(memory_end) ==
    LET Identical(a, b, perm) ==
            [area |-> MapArea_new(VirtAddr_of_vpn(a), VirtAddr_of_vpn(b), "Identical", perm),
             data |-> NoData]
    IN  <<Identical(stext, etext, MapPermission_R + MapPermission_W + MapPermission_X),
          Identical(srodata, erodata, MapPermission_R),
          Identical(sdata, edata, MapPermission_R + MapPermission_W),
          Identical(sbss_with_stack, ebss, MapPermission_R + MapPermission_W),
          Identical(ekernel, memory_end, MapPermission_R + MapPermission_W)>>

\* the areas of new_kernel, with MEMORY_END at page memory_end
KernelAreas(memory_end) ==
    LET Identical(a, b, perm) ==
            [area |-> MapArea_new(VirtAddr_of_vpn(a), VirtAddr_of_vpn(b), "Identical", perm),
             data |-> NoData]
    IN  <<Identical(stext, etext, MapPermission_R + MapPermission_X),
          Identical(srodata, erodata, MapPermission_R),
          Identical(sdata, edata, MapPermission_R + MapPermission_W),
          Identical(sbss_with_stack, ebss, MapPermission_R + MapPermission_W),
          Identical(ekernel, memory_end, MapPermission_R + MapPermission_W)>>

\* new_bare and map_trampoline, then what F does with the memory set
WithTrampoline(k, src, F(_)) ==
    With(new_bare(k), LAMBDA b :
        IF b.panic THEN F(b)
        ELSE With(map_trampoline(b.k, b.ms, src), F))

new_kernel(k, src, memory_end) ==
    WithTrampoline(k, src, LAMBDA t :
        IF t.panic
        THEN [k |-> t.k, ms |-> t.ms, panic |-> TRUE]
        ELSE With(push_all(t.k, t.ms, KernelAreas(memory_end), src), LAMBDA r :
                [k |-> r.k, ms |-> r.ms, panic |-> r.panic]))

\* An ELF image is [valid, ph, entry]: valid says that xmas_elf parses it and
\* the magic is right; ph is the program headers [type, vaddr, mem_size,
\* flags, data], flags being the permission bits R/W/X of the segment.
\* The areas from_elf pushes for the program headers of type Load, in order.
SegmentAreas(ph) ==
    LET loads == SelectSeq(ph, LAMBDA h : h.type = "Load")
    IN  [i \in 1..Len(loads) |->
            [area |-> MapArea_new(VirtAddr_from(loads[i].vaddr),
                                  VirtAddr_from(loads[i].vaddr + loads[i].mem_size),
                                  "Framed", MapPermission_U + loads[i].flags),
             data |-> loads[i].data]]

\* from_elf with a trap context that user mode may access
from_elf_stack_user_trap(s, src, entry) ==
    With(insert_framed_area(s.k, s.ms,
                            va_add(VirtAddr_of_vpn(s.max_end_vpn), PAGE_SIZE),
                            va_add(VirtAddr_of_vpn(s.max_end_vpn), PAGE_SIZE + USER_STACK_SIZE),
                            MapPermission_R + MapPermission_W + MapPermission_U, src),
         LAMBDA u :
        IF u.panic
        THEN [k |-> u.k, ms |-> u.ms, panic |-> TRUE, user_sp |-> VirtAddr_from(0), entry |-> 0]
        ELSE With(insert_framed_area(u.k, u.ms, TRAP_CONTEXT, TRAMPOLINE,
                                     MapPermission_R + MapPermission_W + MapPermission_U,
                                     src), LAMBDA c :
                [k |-> c.k, ms |-> c.ms, panic |-> c.panic,
                 user_sp |-> va_add(VirtAddr_of_vpn(s.max_end_vpn), PAGE_SIZE + USER_STACK_SIZE),
                 entry |-> entry]))

\* the end of from_elf: the user stack above the guard page, the trap context
from_elf_stack(s, src, entry) ==
    With(insert_framed_area(s.k, s.ms,
                            va_add(VirtAddr_of_vpn(s.max_end_vpn), PAGE_SIZE),
                            va_add(VirtAddr_of_vpn(s.max_end_vpn), PAGE_SIZE + USER_STACK_SIZE),
                            MapPermission_R + MapPermission_W + MapPermission_U, src),
         LAMBDA u :
        IF u.panic
        THEN [k |-> u.k, ms |-> u.ms, panic |-> TRUE, user_sp |-> VirtAddr_from(0), entry |-> 0]
        ELSE With(insert_framed_area(u.k, u.ms, TRAP_CONTEXT, TRAMPOLINE,
                                     MapPermission_R + MapPermission_W, src), LAMBDA c :
                [k |-> c.k, ms |-> c.ms, panic |-> c.panic,
                 user_sp |-> va_add(VirtAddr_of_vpn(s.max_end_vpn), PAGE_SIZE + USER_STACK_SIZE),
                 entry |-> entry]))

\* from_elf; the result is [k, ms, panic, user_sp, entry]
from_elf(k, src, elf) ==
    WithTrampoline(k, src, LAMBDA t :
        IF t.panic \/ ~elf.valid
        THEN [k |-> t.k, ms |-> t.ms, panic |-> TRUE, user_sp |-> VirtAddr_from(0), entry |-> 0]
        ELSE With(push_all(t.k, t.ms, SegmentAreas(elf.ph), src), LAMBDA s :
                IF s.panic
                THEN [k |-> s.k, ms |-> s.ms, panic |-> TRUE,
                      user_sp |-> VirtAddr_from(0), entry |-> 0]
                ELSE from_elf_stack(s, src, elf.entry)))

MemorySet_translate(m, ms, src, vpn) == translate(m, ms.page_table, src, vpn)

\* some area has exactly the range [start_vpn, end_vpn)
range(ms, start_vpn, end_vpn) ==
    \E i \in 1..Len(ms.areas) :
        ms.areas[i].vpn_range.l = start_vpn /\ ms.areas[i].vpn_range.r = end_vpn

\* remove matching an area by its start alone
RemoveHits_start_only(ms, start, len) ==
    {i \in 1..Len(ms.areas) : start = VirtAddr_of_vpn(ms.areas[i].vpn_range.l)}

\* the areas remove matches: it compares byte addresses, start with the
\* start of the area and start + len with its end
RemoveHits(ms, start, len) ==
    {i \in 1..Len(ms.areas) :
        /\ start = VirtAddr_of_vpn(ms.areas[i].vpn_range.l)
        /\ VirtAddr_of_vpn(ms.areas[i].vpn_range.r) = va_add(start, len)}

\* remove at the first matching area, areas[index]
remove_at(k, ms, index, src) ==
    With(MapArea_unmap(k, ms.page_table, ms.areas[index], src), LAMBDA u :
        IF u.panic
        THEN [k |-> u.k,
              ms |-> [page_table |-> u.pt, areas |-> [ms.areas EXCEPT ![index] = u.area]],
              ret |-> -1, panic |-> TRUE]
        ELSE [k |-> u.k,
              ms |-> [page_table |-> u.pt,
                      areas |-> SubSeq(ms.areas, 1, index - 1)
                                \o SubSeq(ms.areas, index + 1, Len(ms.areas))],
              ret |-> 0, panic |-> FALSE])

\* MemorySet::remove; the result is [k, ms, ret, panic]
remove(k, ms, start, len, src) ==
    IF RemoveHits(ms, start, len) = {}
    THEN [k |-> k, ms |-> ms, ret |-> -1, panic |-> FALSE]
    ELSE remove_at(k, ms,
                   CHOOSE i \in RemoveHits(ms, start, len) :
                       \A j \in RemoveHits(ms, start, len) : i <= j,
                   src)

(***************************************************************************)
(* TaskControlBlock: [task_status, task_cx, memory_set, trap_cx_ppn,       *)
(* base_size].                                                             *)
(***************************************************************************)
\* config::kernel_stack_position: (bottom, top) of the kernel stack of app_id
kernel_stack_position(app_id) ==
    LET top == TRAMPOLINE_VPN - app_id * ((KERNEL_STACK_SIZE + PAGE_SIZE) \div PAGE_SIZE)
    IN  [bottom |-> VirtAddr_of_vpn(top - KERNEL_STACK_SIZE \div PAGE_SIZE),
         top |-> VirtAddr_of_vpn(top)]

\* TrapContext::app_init_context written through trap_cx_ppn: the words of
\* the frame that hold x[2] = user_sp, sepc = entry and kernel_sp
app_init_context(m, ppn, entry, user_sp, kernel_sp) ==
    Store(Store(Store(m, ppn, 2, user_sp.page * PAGE_SIZE + user_sp.off),
                ppn, 33, entry),
          ppn, 35, kernel_sp.page)

\* the end of TaskControlBlock::new, f being what from_elf returned and
\* trap_cx_ppn the page number found for TRAP_CONTEXT
tcb_build(f, ks, src, trap_cx_ppn, pos) ==
    With(insert_framed_area(f.k, ks, pos.bottom, pos.top,
                            MapPermission_R + MapPermission_W, src), LAMBDA s :
        [k |-> IF s.panic THEN s.k
               ELSE [s.k EXCEPT !.mem = app_init_context(@, trap_cx_ppn, f.entry,
                                                         f.user_sp, pos.top)],
         ks |-> s.ms,
         tcb |-> [task_status |-> "Ready",
                  task_cx |-> pos.top,
                  memory_set |-> f.ms,
                  trap_cx_ppn |-> trap_cx_ppn,
                  base_size |-> f.user_sp],
         panic |-> s.panic])

\* TaskControlBlock::new; the result is [k, ks, tcb, panic], ks the kernel space
TaskControlBlock_new(k, ks, src, elf_data, app_id) ==
    With(from_elf(k, src, elf_data), LAMBDA f :
        IF f.panic
        THEN [k |-> f.k, ks |-> ks, tcb |-> <<>>, panic |-> TRUE]
        ELSE With(MemorySet_translate(f.k.mem, f.ms, src, TRAP_CONTEXT_VPN), LAMBDA e :
                IF e = None
                THEN [k |-> f.k, ks |-> ks, tcb |-> <<>>, panic |-> TRUE]
                ELSE tcb_build(f, ks, src, pte_ppn(e), kernel_stack_position(app_id))))

(***************************************************************************)
(* TaskManager: [num_app, tasks, current_task].                            *)
(***************************************************************************)
\* the loop of the TASK_MANAGER initialiser, from application i (0-based) on
RECURSIVE load_apps(_, _, _, _, _, _)
load_apps(k, ks, src, images, i, tasks) ==
    IF i >= Len(images)
    THEN [k |-> k, ks |-> ks, tasks |-> tasks, panic |-> FALSE]
    ELSE With(TaskControlBlock_new(k, ks, src, images[i + 1], i), LAMBDA r :
            IF r.panic
            THEN [k |-> r.k, ks |-> r.ks, tasks |-> tasks, panic |-> TRUE]
            ELSE load_apps(r.k, r.ks, src, images, i + 1, Append(tasks, r.tcb)))

\* tasks are indexed from 0 in the code and from 1 in the sequence
Task(tmgr, id) == tmgr.tasks[id + 1]

\* find_next_task over the ids 0, 1, .. in place of current + 1, current + 2, ..
find_next_task_lowest(tmgr) ==
    LET ready == {j \in 0..(tmgr.num_app - 1) : Task(tmgr, j).task_status = "Ready"}
    IN  IF ready = {} THEN None
        ELSE CHOOSE j \in ready : \A j2 \in ready : j <= j2

find_next_task(tmgr) ==
    LET ids   == [j \in 1..tmgr.num_app |-> (tmgr.current_task + j) % tmgr.num_app]
        ready == {j \in 1..tmgr.num_app : Task(tmgr, ids[j]).task_status = "Ready"}
    IN  IF ready = {} THEN None
        ELSE ids[CHOOSE j \in ready : \A j2 \in ready : j <= j2]

\* a mark_current_suspended that leaves the status of the task as it is
mark_current_suspended_skipped(tmgr) == tmgr

mark_current_suspended(tmgr) ==
    [tmgr EXCEPT !.tasks[tmgr.current_task + 1].task_status = "Ready"]

mark_current_exited(tmgr) ==
    [tmgr EXCEPT !.tasks[tmgr.current_task + 1].task_status = "Exited"]

\* run_next_task: the manager after the switch; panic is the panic
\* "All applications completed!"
run_next_task(tmgr) ==
    With(find_next_task(tmgr), LAMBDA next :
        IF next = None
        THEN [tm |-> tmgr, panic |-> TRUE]
        ELSE [tm |-> [tmgr EXCEPT !.tasks[next + 1].task_status = "Running",
                                  !.current_task = next],
              panic |-> FALSE])

\* the overlap test of TaskManager::sys_mmap against one area
Overlaps(area, start_vpn, end_vpn) ==
    start_vpn < area.vpn_range.r /\ end_vpn > area.vpn_range.l

\* the test that is commented out in TaskManager::sys_mmap: the new range
\* contains the area
Contains(area, start_vpn, end_vpn) ==
    start_vpn <= area.vpn_range.l /\ area.vpn_range.r <= end_vpn

\* the memory set of the current task
CurrentSet(tmgr) == tmgr.tasks[tmgr.current_task + 1].memory_set

\* the end of TaskManager::sys_mmap: insert_framed_area on the current task
mmap_insert(k, tmgr, start_vpn, end_vpn, permission, src) ==
    With(insert_framed_area(k, CurrentSet(tmgr), VirtAddr_of_vpn(start_vpn),
                            VirtAddr_of_vpn(end_vpn), permission, src), LAMBDA r :
        [k |-> r.k,
         tm |-> [tmgr EXCEPT !.tasks[tmgr.current_task + 1].memory_set = r.ms],
         ret |-> ~r.panic, panic |-> r.panic])

TaskManager_sys_mmap_contains(k, tmgr, start, len, permission, src) ==
    IF \E i \in 1..Len(CurrentSet(tmgr).areas) :
          Contains(CurrentSet(tmgr).areas[i], floor(start), ceil(va_add(start, len)))
    THEN [k |-> k, tm |-> tmgr, ret |-> FALSE, panic |-> FALSE]
    ELSE mmap_insert(k, tmgr, floor(start), ceil(va_add(start, len)), permission, src)

\* TaskManager::sys_mmap; the result is [k, tm, ret, panic]
TaskManager_sys_mmap(k, tmgr, start, len, permission, src) ==
    IF \E i \in 1..Len(CurrentSet(tmgr).areas) :
          Overlaps(CurrentSet(tmgr).areas[i], floor(start), ceil(va_add(start, len)))
    THEN [k |-> k, tm |-> tmgr, ret |-> FALSE, panic |-> FALSE]
    ELSE mmap_insert(k, tmgr, floor(start), ceil(va_add(start, len)), permission, src)

\* TaskManager::sys_munmap; the result is [k, tm, ret, panic]
TaskManager_sys_munmap(k, tmgr, start, len, src) ==
    With(remove(k, CurrentSet(tmgr), start, len, src), LAMBDA r :
        [k |-> r.k,
         tm |-> [tmgr EXCEPT !.tasks[tmgr.current_task + 1].memory_set = r.ms],
         ret |-> r.ret, panic |-> r.panic])

(***************************************************************************)
(* syscall/process.rs                                                      *)
(***************************************************************************)
\* x & 0x7 and x & !0x7 for a usize x
And7(x) == x % 8
AndNot7(x) == x - (x % 8)

\* the permission of _port without MapPermission::U
PortPermission_no_user(port) ==
    (IF port % 2 = 1 THEN MapPermission_R ELSE 0)
    + (IF (port \div 2) % 2 = 1 THEN MapPermission_W ELSE 0)
    + (IF (port \div 4) % 2 = 1 THEN MapPermission_X ELSE 0)

\* the MapPermission sys_mmap builds from _port
PortPermission(port) ==
    MapPermission_U
    + (IF port % 2 = 1 THEN MapPermission_R ELSE 0)
    + (IF (port \div 2) % 2 = 1 THEN MapPermission_W ELSE 0)
    + (IF (port \div 4) % 2 = 1 THEN MapPermission_X ELSE 0)

\* sys_mmap(_start, _len, _port); the result is [k, tm, ret, panic]
sys_mmap(k, tmgr, start, len, port, src) ==
    IF len = 0
    THEN [k |-> k, tm |-> tmgr, ret |-> 0, panic |-> FALSE]
    ELSE IF va_gt(start, VirtAddr_from(268439552)) \/ page_offset(start) # 0
    THEN [k |-> k, tm |-> tmgr, ret |-> -1, panic |-> FALSE]
    ELSE IF AndNot7(port) # 0 \/ And7(port) = 0
    THEN [k |-> k, tm |-> tmgr, ret |-> -1, panic |-> FALSE]
    ELSE With(TaskManager_sys_mmap(k, tmgr, start, len, PortPermission(port), src), LAMBDA r :
            [k |-> r.k, tm |-> r.tm, ret |-> IF r.ret THEN 0 ELSE -1, panic |-> r.panic])

\* sys_munmap(_start, _len)
sys_munmap(k, tmgr, start, len, src) == TaskManager_sys_munmap(k, tmgr, start, len, src)

(***************************************************************************)
(* The kernel: mm::init, the load of the applications, run_first_task and  *)
(* the system calls of the running task.                                   *)
(***************************************************************************)
MaxApps == 1           \* largest number of applications linked into the kernel
MaxMainFrames == 19    \* largest number of frames between ekernel and MEMORY_END

\* Application images: one page of text; text and two pages of data; two
\* segments of which the one at the higher address comes first; and a file
\* that is not an ELF image.
ElfImages ==
    <<[valid |-> TRUE, entry |-> 65536,
       ph |-> <<[type |-> "Load", vaddr |-> 65536, mem_size |-> 4096,
                 flags |-> MapPermission_R + MapPermission_X,
                 data |-> [len |-> 4096, words |-> (0 :> 19) @@ (511 :> 23)]]>>],
      [valid |-> TRUE, entry |-> 65540,
       ph |-> <<[type |-> "Other", vaddr |-> 0, mem_size |-> 0, flags |-> 0,
                 data |-> [len |-> 0, words |-> <<>>]],
                [type |-> "Load", vaddr |-> 65536, mem_size |-> 100,
                 flags |-> MapPermission_R + MapPermission_X,
                 data |-> [len |-> 100, words |-> (1 :> 29)]],
                [type |-> "Load", vaddr |-> 69632, mem_size |-> 4097,
                 flags |-> MapPermission_R + MapPermission_W,
                 data |-> [len |-> 16, words |-> (0 :> 31) @@ (1 :> 37)]]>>],
      [valid |-> TRUE, entry |-> 65536,
       ph |-> <<[type |-> "Load", vaddr |-> 73728, mem_size |-> 4096,
                 flags |-> MapPermission_R + MapPermission_W,
                 data |-> [len |-> 8, words |-> (0 :> 41)]],
                [type |-> "Load", vaddr |-> 65536, mem_size |-> 4096,
                 flags |-> MapPermission_R + MapPermission_X,
                 data |-> [len |-> 8, words |-> (0 :> 43)]]>>],
      [valid |-> FALSE, entry |-> 0, ph |-> <<>>]>>

\* the lists of applications a kernel is built with
AppLists ==
    {[i \in 1..Len(c) |-> ElfImages[c[i]]] :
        c \in {c \in UNION {[1..n -> 1..Len(ElfImages)] : n \in 1..MaxApps} :
                  \A i \in 1..(Len(c) - 1) : c[i] < c[i + 1]}}

\* the numbers of frames between ekernel and MEMORY_END
MainFrames == {4, 12, MaxMainFrames}

\* the arguments the running task passes to sys_mmap and sys_munmap
\* (0x10000, 0x10000000, 0x10000800, 0x10001000, 0x10002000)
SysStarts ==
    {VirtAddr_from(65536), VirtAddr_from(268435456), VirtAddr_from(268437504),
     VirtAddr_from(268439552), VirtAddr_from(268443648)}
SysLens == {0, 1, 4096, 8192}
SysPorts == {0, 3, 8}

InitMain ==
    /\ mode = "boot"
    /\ fa = StackFrameAllocator_new
    /\ v = <<>>
    /\ pt = NoPageTable
    /\ kernel_space = NoMemorySet
    /\ tm = NoTaskManager
    /\ memory_set = NoMemorySet
    /\ last = [op |-> "none"]
    /\ apps \in AppLists
    /\ \E n \in MainFrames : phys = [l |-> ekernel, r |-> ekernel + n]
    /\ fa_src \in {"os4-ref", "os4"}
    /\ pt_src \in {"os4-ref", "os4"}
    /\ mem = [p \in phys.l..(phys.r - 1) |-> StaleFrame]

\* mm::init: init_frame_allocator, then KERNEL_SPACE is built on first use
MmInit ==
    /\ mode = "boot"
    /\ \E r \in {new_kernel([fa |-> IF fa_src = "os4" THEN init_os4(fa, phys.l, phys.r)
                                                      ELSE init(fa, phys.l, phys.r),
                              mem |-> mem], pt_src, phys.r)} :
           /\ fa' = r.k.fa
           /\ mem' = r.k.mem
           /\ kernel_space' = r.ms
           /\ mode' = IF r.panic THEN "panic" ELSE "mm"
           /\ last' = [op |-> "mm_init", panic |-> r.panic]
    /\ UNCHANGED <<phys, fa_src, pt_src, v, pt, apps, tm, memory_set>>

\* the initialiser of TASK_MANAGER
LoadApps ==
    /\ mode = "mm"
    /\ \E r \in {load_apps(K, kernel_space, pt_src, apps, 0, <<>>)} :
           /\ fa' = r.k.fa
           /\ mem' = r.k.mem
           /\ kernel_space' = r.ks
           /\ tm' = [num_app |-> Len(apps), tasks |-> r.tasks, current_task |-> 0]
           /\ mode' = IF r.panic THEN "panic" ELSE "loaded"
           /\ last' = [op |-> "load", panic |-> r.panic]
    /\ UNCHANGED <<phys, fa_src, pt_src, v, pt, apps, memory_set>>

RunFirstTask ==
    /\ mode = "loaded"
    /\ tm' = [tm EXCEPT !.tasks[1].task_status = "Running"]
    /\ mode' = "run"
    /\ last' = [op |-> "run_first_task"]
    /\ UNCHANGED <<phys, fa_src, pt_src, fa, mem, v, pt, apps, kernel_space, memory_set>>

\* the running task is in user mode
UserMode == mode = "run" /\ tm.num_app > 0

SysMmap(start, len, port) ==
    /\ UserMode
    /\ \E r \in {sys_mmap(K, tm, start, len, port, pt_src)} :
           /\ fa' = r.k.fa
           /\ mem' = r.k.mem
           /\ tm' = r.tm
           /\ mode' = IF r.panic THEN "panic" ELSE mode
           /\ last' = [op |-> "sys_mmap", start |-> start, len |-> len, port |-> port,
                       ret |-> r.ret, panic |-> r.panic]
    /\ UNCHANGED <<phys, fa_src, pt_src, v, pt, apps, kernel_space, memory_set>>

SysMunmap(start, len) ==
    /\ UserMode
    /\ \E r \in {sys_munmap(K, tm, start, len, pt_src)} :
           /\ fa' = r.k.fa
           /\ mem' = r.k.mem
           /\ tm' = r.tm
           /\ mode' = IF r.panic THEN "panic" ELSE mode
           /\ last' = [op |-> "sys_munmap", start |-> start, len |-> len,
                       ret |-> r.ret, panic |-> r.panic]
    /\ UNCHANGED <<phys, fa_src, pt_src, v, pt, apps, kernel_space, memory_set>>

\* sys_yield: suspend_current_and_run_next
SysYield ==
    /\ UserMode
    /\ \E r \in {run_next_task(mark_current_suspended(tm))} :
           /\ tm' = r.tm
           /\ mode' = IF r.panic THEN "completed" ELSE mode
    /\ last' = [op |-> "sys_yield"]
    /\ UNCHANGED <<phys, fa_src, pt_src, fa, mem, v, pt, apps, kernel_space, memory_set>>

\* sys_exit: exit_current_and_run_next
SysExit ==
    /\ UserMode
    /\ \E r \in {run_next_task(mark_current_exited(tm))} :
           /\ tm' = r.tm
           /\ mode' = IF r.panic THEN "completed" ELSE mode
    /\ last' = [op |-> "sys_exit"]
    /\ UNCHANGED <<phys, fa_src, pt_src, fa, mem, v, pt, apps, kernel_space, memory_set>>

Next ==
    \/ MmInit
    \/ LoadApps
    \/ RunFirstTask
    \/ \E start \in SysStarts, len \in SysLens, port \in SysPorts : SysMmap(start, len, port)
    \/ \E start \in SysStarts, len \in SysLens : SysMunmap(start, len)
    \/ SysYield
    \/ SysExit

Spec == InitMain /\ [][Next]_vars

(***************************************************************************)
(* Claims about sys_mmap and sys_munmap.                                   *)
(***************************************************************************)
\* the arguments pass the checks sys_mmap makes before it calls TaskManager::sys_mmap
MmapArgsOk(start, len, port) ==
    /\ len > 0
    /\ ~va_gt(start, VirtAddr_from(268439552))
    /\ page_offset(start) = 0
    /\ AndNot7(port) = 0
    /\ And7(port) # 0

\* [floor(start), ceil(start + len)) meets the range of area i of the current task
MeetsArea(tmgr, i, start, len) ==
    Overlaps(CurrentSet(tmgr).areas[i], floor(start), ceil(va_add(start, len)))

\* C9: a sys_mmap whose page range intersects the range of an area of the
\* current task returns failure and leaves the areas, the page table and
\* the frame allocator (and all of memory) as they were.
C9_OverlapRejected ==
    [][(/\ UserMode
        /\ last'.op = "sys_mmap"
        /\ MmapArgsOk(last'.start, last'.len, last'.port)
        /\ \E i \in 1..Len(CurrentSet(tm).areas) : MeetsArea(tm, i, last'.start, last'.len))
       => (/\ last'.ret = -1
           /\ ~last'.panic
           /\ mode' = mode
           /\ tm' = tm
           /\ fa' = fa
           /\ mem' = mem)]_vars

\* C9 witness: sys_mmap has failed on a range that meets an area made by an
\* earlier sys_mmap without covering it.
C9_Witness ==
    /\ UserMode
    /\ last.op = "sys_mmap"
    /\ last.ret = -1
    /\ MmapArgsOk(last.start, last.len, last.port)
    /\ \E i \in 1..Len(CurrentSet(tm).areas) :
          /\ CurrentSet(tm).areas[i].vpn_range.l >= floor(VirtAddr_from(268435456))
          /\ CurrentSet(tm).areas[i].vpn_range.r < TRAP_CONTEXT_VPN
          /\ MeetsArea(tm, i, last.start, last.len)
          /\ ~Contains(CurrentSet(tm).areas[i], floor(last.start),
                       ceil(va_add(last.start, last.len)))

\* C10: after a sys_mmap(start, len, port) with len > 0 that succeeded, the
\* sys_munmap(start, len) that follows it succeeds, translate reports
\* not-found for every page of the range and no area has that range.
C10_MunmapAfterMmap ==
    [][(/\ UserMode
        /\ last.op = "sys_mmap"
        /\ last.ret = 0
        /\ last.len > 0
        /\ last'.op = "sys_munmap"
        /\ last'.start = last.start
        /\ last'.len = last.len)
       => (/\ last'.ret = 0
           /\ ~last'.panic
           /\ \A vpn \in floor(last.start)..(ceil(va_add(last.start, last.len)) - 1) :
                 MemorySet_translate(mem', CurrentSet(tm'), pt_src, vpn) = None
           /\ ~range(CurrentSet(tm'), floor(last.start),
                     ceil(va_add(last.start, last.len))))]_vars

\* C10 without the not-found reading of translate: the pages of the range
\* are no longer mapped to a valid entry.
C10_MunmapAfterMmap_unmapped ==
    [][(/\ UserMode
        /\ last.op = "sys_mmap"
        /\ last.ret = 0
        /\ last.len > 0
        /\ last'.op = "sys_munmap"
        /\ last'.start = last.start
        /\ last'.len = last.len)
       => (/\ last'.ret = 0
           /\ ~last'.panic
           /\ \A vpn \in floor(last.start)..(ceil(va_add(last.start, last.len)) - 1) :
                 ~Mapped(MemorySet_translate(mem', CurrentSet(tm'), pt_src, vpn))
           /\ ~range(CurrentSet(tm'), floor(last.start),
                     ceil(va_add(last.start, last.len))))]_vars

\* C10 for a len that is a multiple of the page size
C10_MunmapAfterMmap_aligned ==
    [][(/\ UserMode
        /\ last.op = "sys_mmap"
        /\ last.ret = 0
        /\ last.len > 0
        /\ last.len % PAGE_SIZE = 0
        /\ last'.op = "sys_munmap"
        /\ last'.start = last.start
        /\ last'.len = last.len)
       => (/\ last'.ret = 0
           /\ ~last'.panic
           /\ \A vpn \in floor(last.start)..(ceil(va_add(last.start, last.len)) - 1) :
                 ~Mapped(MemorySet_translate(mem', CurrentSet(tm'), pt_src, vpn))
           /\ ~range(CurrentSet(tm'), floor(last.start),
                     ceil(va_add(last.start, last.len))))]_vars

(***************************************************************************)
(* Claims about MemorySet::remove and the area list.                       *)
(***************************************************************************)
\* area i of the current task has exactly the byte bounds [start, start + len)
ExactArea(tmgr, i, start, len) ==
    /\ VirtAddr_of_vpn(CurrentSet(tmgr).areas[i].vpn_range.l) = start
    /\ VirtAddr_of_vpn(CurrentSet(tmgr).areas[i].vpn_range.r) = va_add(start, len)

\* the sequence s without its element i
Without(s, i) == SubSeq(s, 1, i - 1) \o SubSeq(s, i + 1, Len(s))

\* C11: sys_munmap(start, len) removes an area only when [start, start + len)
\* is exactly the bounds of that area; when no area has these bounds (a part
\* of a larger area, a range over several areas, a range of no area) it
\* returns -1 and leaves the areas, the page table, the frame allocator and
\* memory as they were.
C11_RemoveExactOnly ==
    [][(UserMode /\ last'.op = "sys_munmap") =>
         /\ (\A i \in 1..Len(CurrentSet(tm).areas) :
                 ~ExactArea(tm, i, last'.start, last'.len))
               => (/\ last'.ret = -1
                   /\ ~last'.panic
                   /\ mode' = mode
                   /\ tm' = tm
                   /\ fa' = fa
                   /\ mem' = mem)
         /\ (Len(CurrentSet(tm').areas) # Len(CurrentSet(tm).areas))
               => \E i \in 1..Len(CurrentSet(tm).areas) :
                     /\ ExactArea(tm, i, last'.start, last'.len)
                     /\ CurrentSet(tm').areas = Without(CurrentSet(tm).areas, i)]_vars

\* C11 witness: sys_munmap has failed on a range that is a proper part of an
\* area of the current task.
C11_Witness ==
    /\ UserMode
    /\ last.op = "sys_munmap"
    /\ last.ret = -1
    /\ last.len > 0
    /\ \E i \in 1..Len(CurrentSet(tm).areas) :
          /\ CurrentSet(tm).areas[i].vpn_range.l <= floor(last.start)
          /\ ceil(va_add(last.start, last.len)) < CurrentSet(tm).areas[i].vpn_range.r
          /\ page_offset(last.start) = 0
          /\ last.len % PAGE_SIZE = 0

\* sys_munmap has failed on a range that is exactly the union of two areas
C11_Witness_spanning ==
    /\ UserMode
    /\ last.op = "sys_munmap"
    /\ last.ret = -1
    /\ \E i, j \in 1..Len(CurrentSet(tm).areas) :
          /\ VirtAddr_of_vpn(CurrentSet(tm).areas[i].vpn_range.l) = last.start
          /\ CurrentSet(tm).areas[i].vpn_range.r = CurrentSet(tm).areas[j].vpn_range.l
          /\ CurrentSet(tm).areas[i].vpn_range.l < CurrentSet(tm).areas[i].vpn_range.r
          /\ VirtAddr_of_vpn(CurrentSet(tm).areas[j].vpn_range.r)
                = va_add(last.start, last.len)

\* the page ranges of two areas share a page
AreasMeet(a, b) ==
    a.vpn_range.l < b.vpn_range.r /\ b.vpn_range.l < a.vpn_range.r

\* C12: in every state the areas of every task's address space are pairwise
\* disjoint in their ranges of virtual page numbers.
C12_AreasDisjoint ==
    \A t \in 1..Len(tm.tasks) :
        \A i, j \in 1..Len(tm.tasks[t].memory_set.areas) :
            i # j => ~AreasMeet(tm.tasks[t].memory_set.areas[i],
                               tm.tasks[t].memory_set.areas[j])

\* C12 witness: sys_mmap has put an area right below an area that an earlier
\* sys_mmap made, so that the two touch without sharing a page.
C12_Witness ==
    /\ UserMode
    /\ last.op = "sys_mmap"
    /\ last.ret = 0
    /\ \E i, j \in 1..Len(CurrentSet(tm).areas) :
          /\ CurrentSet(tm).areas[i].vpn_range.l >= floor(VirtAddr_from(268435456))
          /\ CurrentSet(tm).areas[i].vpn_range.r = CurrentSet(tm).areas[j].vpn_range.l
          /\ CurrentSet(tm).areas[j].vpn_range.r < TRAP_CONTEXT_VPN
          /\ j < i

(***************************************************************************)
(* Claims about frame exhaustion and the permission bits of sys_mmap.      *)
(***************************************************************************)
\* the number of pages of [floor(start), ceil(start + len))
PagesOf(start, len) == ceil(va_add(start, len)) - floor(start)

\* C13: a sys_mmap that finds the frame allocator exhausted (its range has
\* more pages than the allocator has frames left) returns the failure status
\* -1 without aborting, and leaves the address space, the frame allocator
\* and memory as they were.
C13_ExhaustionIsFailure ==
    [][(/\ UserMode
        /\ last'.op = "sys_mmap"
        /\ MmapArgsOk(last'.start, last'.len, last'.port)
        /\ \A i \in 1..Len(CurrentSet(tm).areas) : ~MeetsArea(tm, i, last'.start, last'.len)
        /\ PagesOf(last'.start, last'.len) > Avail(fa))
       => (/\ last'.ret = -1
           /\ ~last'.panic
           /\ mode' = mode
           /\ tm' = tm
           /\ fa' = fa
           /\ mem' = mem)]_vars

\* what the code does instead: the kernel aborts, with the frames it could
\* still get taken from the allocator
C13_ExhaustionAborts ==
    [][(/\ UserMode
        /\ last'.op = "sys_mmap"
        /\ MmapArgsOk(last'.start, last'.len, last'.port)
        /\ \A i \in 1..Len(CurrentSet(tm).areas) : ~MeetsArea(tm, i, last'.start, last'.len)
        /\ PagesOf(last'.start, last'.len) > Avail(fa))
       => (/\ last'.panic
           /\ mode' = "panic"
           /\ Avail(fa') = 0)]_vars

(***************************************************************************)
(* The kernel with one application that calls sys_mmap and sys_munmap on   *)
(* one page with every permission pattern.                                 *)
(***************************************************************************)
MaxPort == 9           \* largest permission pattern given to sys_mmap

PermPorts == 0..MaxPort
PermStarts == {VirtAddr_from(268435456)}
PermLens == {0, 4096}

InitPerm ==
    /\ InitMain
    /\ apps = <<ElfImages[1]>>

NextPerm ==
    \/ MmInit
    \/ LoadApps
    \/ RunFirstTask
    \/ \E start \in PermStarts, len \in PermLens, port \in PermPorts : SysMmap(start, len, port)
    \/ \E start \in PermStarts, len \in PermLens : SysMunmap(start, len)

SpecPerm == InitPerm /\ [][NextPerm]_vars

\* the steps of sys_mmap leave everything but last as it was
MmapChangedNothing == mode' = mode /\ tm' = tm /\ fa' = fa /\ mem' = mem

\* the last area of the current task is the one sys_mmap made for
\* [start, start + len) with the permission of port: U, R iff bit 0, W iff
\* bit 1, X iff bit 2, both in the area and in the entries of its pages
InsertedWith(tmgr, m, src, start, len, port) ==
    /\ Len(CurrentSet(tmgr).areas) > 0
    /\ LET a == CurrentSet(tmgr).areas[Len(CurrentSet(tmgr).areas)]
       IN  /\ a.vpn_range = [l |-> floor(start), r |-> ceil(va_add(start, len))]
           /\ a.map_perm = MapPermission_U + 2 * port
           /\ \A vpn \in a.vpn_range.l..(a.vpn_range.r - 1) :
                 /\ MemorySet_translate(m, CurrentSet(tmgr), src, vpn) # None
                 /\ pte_flags(MemorySet_translate(m, CurrentSet(tmgr), src, vpn))
                      = PTE_V + MapPermission_U + 2 * port

\* C14: sys_mmap returns -1 and changes nothing for every permission
\* pattern with a bit above bit 2 or with none of the bits 0..2; for every
\* other pattern a successful call has inserted the area with the
\* permission U, R iff bit 0, W iff bit 1, X iff bit 2; and the call always
\* returns, with 0 or with -1.
C14_PermissionBits ==
    [][(UserMode /\ last'.op = "sys_mmap") =>
         /\ ~last'.panic
         /\ last'.ret \in {0, -1}
         /\ (last'.port > 7 \/ last'.port = 0)
               => (last'.ret = -1 /\ MmapChangedNothing)
         /\ (last'.port \in 1..7 /\ last'.ret = 0 /\ last'.len > 0)
               => InsertedWith(tm', mem', pt_src, last'.start, last'.len, last'.port)]_vars

\* C14 for calls with len > 0 that return
C14_PermissionBits_len_positive ==
    [][(UserMode /\ last'.op = "sys_mmap" /\ last'.len > 0 /\ ~last'.panic) =>
         /\ last'.ret \in {0, -1}
         /\ (last'.port > 7 \/ last'.port = 0)
               => (last'.ret = -1 /\ MmapChangedNothing)
         /\ (last'.port \in 1..7 /\ last'.ret = 0)
               => InsertedWith(tm', mem', pt_src, last'.start, last'.len, last'.port)]_vars

(***************************************************************************)
(* The kernel from reset to the scheduling of its applications, with up    *)
(* to MaxLoadApps applications and no calls of sys_mmap / sys_munmap.      *)
(***************************************************************************)
MaxLoadApps == 2       \* largest number of applications linked into the kernel
MaxLoadFrames == 30    \* largest number of frames between ekernel and MEMORY_END

LoadAppLists ==
    {[i \in 1..Len(c) |-> ElfImages[c[i]]] :
        c \in {c \in UNION {[1..n -> 1..Len(ElfImages)] : n \in 1..MaxLoadApps} :
                  \A i \in 1..(Len(c) - 1) : c[i] < c[i + 1]}}

LoadFrames == {12, 19, MaxLoadFrames}

InitLoad ==
    /\ mode = "boot"
    /\ fa = StackFrameAllocator_new
    /\ v = <<>>
    /\ pt = NoPageTable
    /\ kernel_space = NoMemorySet
    /\ tm = NoTaskManager
    /\ memory_set = NoMemorySet
    /\ last = [op |-> "none"]
    /\ apps \in LoadAppLists
    /\ \E n \in LoadFrames : phys = [l |-> ekernel, r |-> ekernel + n]
    /\ fa_src \in {"os4-ref", "os4"}
    /\ pt_src \in {"os4-ref", "os4"}
    /\ mem = [p \in phys.l..(phys.r - 1) |-> StaleFrame]

NextLoad ==
    \/ MmInit
    \/ LoadApps
    \/ RunFirstTask
    \/ SysYield
    \/ SysExit

SpecLoad == InitLoad /\ [][NextLoad]_vars

(***************************************************************************)
(* Claims about the address spaces new_kernel and from_elf build.          *)
(***************************************************************************)
\* new_kernel has returned: KERNEL_SPACE is complete
KernelBuilt ==
    mode \in {"mm", "loaded", "run", "completed"} \/ (mode = "panic" /\ last.op # "mm_init")

\* the applications are loaded: every task has its address space
Loaded == mode \in {"loaded", "run", "completed"}

\* the entry translate finds for vpn in the memory set ms
Entry(ms, vpn) == MemorySet_translate(mem, ms, pt_src, vpn)

\* the flags of the kernel section that holds page vpn
SectionFlags(vpn) ==
    IF vpn < etext THEN PTE_V + PTE_R + PTE_X
    ELSE IF vpn < erodata THEN PTE_V + PTE_R
    ELSE PTE_V + PTE_R + PTE_W

\* C15: in the kernel address space every page from stext to MEMORY_END is
\* mapped to the physical page of the same number, with exactly the flags of
\* its section and without U: R+X for .text, R for .rodata, R+W for .data,
\* .bss and the rest of memory.
C15_KernelIdentity ==
    KernelBuilt =>
        \A vpn \in stext..(phys.r - 1) :
            /\ Entry(kernel_space, vpn) # None
            /\ pte_ppn(Entry(kernel_space, vpn)) = vpn
            /\ pte_flags(Entry(kernel_space, vpn)) = SectionFlags(vpn)

\* C15 witness: two applications are loaded, so the kernel space also holds
\* their kernel stacks, and the text page of the kernel is mapped.
C15_Witness ==
    /\ mode = "loaded"
    /\ Len(tm.tasks) = 2
    /\ Len(kernel_space.areas) = 7
    /\ Mapped(Entry(kernel_space, stext))

\* the physical pages the areas of ms hold, but for the page at vpn
FramesBut(ms, vpn) ==
    UNION {{ms.areas[i].data_frames[p] : p \in (DOMAIN ms.areas[i].data_frames) \ {vpn}} :
              i \in 1..Len(ms.areas)}

\* the physical pages the entries of the other pages of the areas of ms point to
BackingBut(ms, vpn) ==
    UNION {{pte_ppn(Entry(ms, p)) :
               p \in (ms.areas[i].vpn_range.l..(ms.areas[i].vpn_range.r - 1)) \ {vpn}} :
              i \in 1..Len(ms.areas)}

\* C16: in every address space from_elf built, the entry of the TRAP_CONTEXT
\* page is valid with R and W and without U, and its physical page is a
\* frame this address space owns (the one the task records), which backs no
\* page of a segment or of the user stack, is no page table node and
\* belongs to no other address space.
C16_TrapContextFrame ==
    Loaded =>
        \A t \in 1..Len(tm.tasks) :
            LET ms == tm.tasks[t].memory_set
                e  == Entry(ms, TRAP_CONTEXT_VPN)
            IN  /\ e # None
                /\ pte_flags(e) = PTE_V + PTE_R + PTE_W
                /\ pte_ppn(e) = tm.tasks[t].trap_cx_ppn
                /\ \E i \in 1..Len(ms.areas) :
                      /\ TRAP_CONTEXT_VPN \in DOMAIN ms.areas[i].data_frames
                      /\ ms.areas[i].data_frames[TRAP_CONTEXT_VPN] = pte_ppn(e)
                /\ pte_ppn(e) \notin FramesBut(ms, TRAP_CONTEXT_VPN)
                /\ pte_ppn(e) \notin BackingBut(ms, TRAP_CONTEXT_VPN)
                /\ pte_ppn(e) \notin Range(ms.page_table.frames)
                /\ \A u \in (1..Len(tm.tasks)) \ {t} :
                      /\ pte_ppn(e) \notin FramesBut(tm.tasks[u].memory_set, -1)
                      /\ pte_ppn(e) \notin Range(tm.tasks[u].memory_set.page_table.frames)

\* C16 witness: two applications with segments and stacks are loaded.
C16_Witness ==
    /\ mode = "loaded"
    /\ Len(tm.tasks) = 2
    /\ tm.tasks[1].trap_cx_ppn # tm.tasks[2].trap_cx_ppn
    /\ Cardinality(FramesBut(tm.tasks[2].memory_set, TRAP_CONTEXT_VPN)) >= 4

\* the trampoline page of ms: mapped to strampoline with R and X only, and
\* in the range of no area
TrampolineIn(ms) ==
    /\ Entry(ms, TRAMPOLINE_VPN) = PageTableEntry_new(strampoline, PTE_V + PTE_R + PTE_X)
    /\ \A i \in 1..Len(ms.areas) :
          ~(ms.areas[i].vpn_range.l <= TRAMPOLINE_VPN /\ TRAMPOLINE_VPN < ms.areas[i].vpn_range.r)

\* C17: the kernel address space and every task's address space map the
\* TRAMPOLINE page to the physical page strampoline with R and X and without
\* W and U, in every state, whatever sys_mmap and sys_munmap have done; no
\* area covers that page; and the trap context of a loaded task is the page
\* right below it.
C17_Trampoline ==
    /\ KernelBuilt => TrampolineIn(kernel_space)
    /\ \A t \in 1..Len(tm.tasks) : TrampolineIn(tm.tasks[t].memory_set)
    /\ TRAP_CONTEXT_VPN = TRAMPOLINE_VPN - 1
    /\ mode = "loaded" =>
          \A t \in 1..Len(tm.tasks) :
              pte_ppn(Entry(tm.tasks[t].memory_set, TRAMPOLINE_VPN - 1))
                  = tm.tasks[t].trap_cx_ppn

\* C17 witness: a sys_munmap has removed an area of the running task.
C17_Witness ==
    /\ UserMode
    /\ last.op = "sys_munmap"
    /\ last.ret = 0
    /\ Mapped(Entry(CurrentSet(tm), TRAMPOLINE_VPN))
    /\ Mapped(Entry(kernel_space, TRAMPOLINE_VPN))

\* the end page numbers of the segments of type Load of an image
LoadEnds(elf) ==
    {ceil(VirtAddr_from(elf.ph[i].vaddr + elf.ph[i].mem_size)) :
        i \in {i \in 1..Len(elf.ph) : elf.ph[i].type = "Load"}}

\* the highest of them
HighestEnd(elf) == CHOOSE p \in LoadEnds(elf) : \A q \in LoadEnds(elf) : q <= p

\* the end page number of the last segment of type Load
LastEnd(elf) ==
    ceil(VirtAddr_from(elf.ph[CHOOSE i \in 1..Len(elf.ph) :
                                  /\ elf.ph[i].type = "Load"
                                  /\ \A j \in (i + 1)..Len(elf.ph) : elf.ph[j].type # "Load"].vaddr
                       + elf.ph[CHOOSE i \in 1..Len(elf.ph) :
                                  /\ elf.ph[i].type = "Load"
                                  /\ \A j \in (i + 1)..Len(elf.ph) : elf.ph[j].type # "Load"].mem_size))

\* the task has page top unmapped as its guard page, the user stack with
\* R+W+U on the USER_STACK_SIZE bytes above it, the top of that stack as its
\* stack pointer, and a stack that shares no page with another area
StackAbove(tcb, top) ==
    /\ ~Mapped(Entry(tcb.memory_set, top))
    /\ tcb.base_size = VirtAddr_of_vpn(top + 1 + USER_STACK_SIZE \div PAGE_SIZE)
    /\ \E i \in 1..Len(tcb.memory_set.areas) :
          /\ tcb.memory_set.areas[i].vpn_range
                = [l |-> top + 1, r |-> top + 1 + USER_STACK_SIZE \div PAGE_SIZE]
          /\ tcb.memory_set.areas[i].map_perm
                = MapPermission_R + MapPermission_W + MapPermission_U
          /\ \A vpn \in (top + 1)..(top + USER_STACK_SIZE \div PAGE_SIZE) :
                /\ Entry(tcb.memory_set, vpn) # None
                /\ pte_flags(Entry(tcb.memory_set, vpn)) = PTE_V + PTE_R + PTE_W + PTE_U
          /\ \A j \in (1..Len(tcb.memory_set.areas)) \ {i} :
                ~AreasMeet(tcb.memory_set.areas[i], tcb.memory_set.areas[j])

\* every application is an ELF image with a segment of type Load
AllLoadable == \A i \in 1..Len(apps) : apps[i].valid /\ LoadEnds(apps[i]) # {}

\* C18: for images with one or more Load segments in any order, and frames
\* enough to build them, from_elf leaves the page at the highest end page
\* number of the segments unmapped as the guard page and maps the user stack
\* with R+W+U on the USER_STACK_SIZE bytes above it; the stack pointer it
\* returns is the top of that stack and the stack shares no page with a
\* segment.
C18_StackAboveHighest ==
    (last.op = "load" /\ AllLoadable /\ ~(last.panic /\ Avail(fa) = 0)) =>
        /\ ~last.panic
        /\ \A t \in 1..Len(tm.tasks) : StackAbove(tm.tasks[t], HighestEnd(apps[t]))

\* what from_elf does: the guard page and the stack come after the end of
\* the last Load segment of the image
C18_StackAboveLast ==
    (last.op = "load" /\ AllLoadable /\ ~last.panic) =>
        \A t \in 1..Len(tm.tasks) : StackAbove(tm.tasks[t], LastEnd(apps[t]))

(***************************************************************************)
(* Drop of a MemorySet. The fields of a struct are dropped in the order of *)
(* their declaration: page_table (its Vec<FrameTracker>, first to last),   *)
(* then areas (each MapArea's BTreeMap of FrameTrackers, by virtual page   *)
(* number). Dropping a FrameTracker calls frame_dealloc.                   *)
(***************************************************************************)
\* the values of the map f on the keys in keys, by ascending key
RECURSIVE InKeyOrder(_, _)
InKeyOrder(f, keys) ==
    IF keys = {}
    THEN <<>>
    ELSE <<f[CHOOSE p \in keys : \A q \in keys : p <= q]>>
         \o InKeyOrder(f, keys \ {CHOOSE p \in keys : \A q \in keys : p <= q})

\* the FrameTrackers of a list of areas in the order of their drop
RECURSIVE AreaTrackers(_)
AreaTrackers(areas) ==
    IF areas = <<>>
    THEN <<>>
    ELSE InKeyOrder(Head(areas).data_frames, DOMAIN Head(areas).data_frames)
         \o AreaTrackers(Tail(areas))

\* a drop that forgets the frames of the page table
drop_memory_set_areas_only(k, ms) == drop_frames(k, AreaTrackers(ms.areas))

\* drop(memory_set); the result is [k, panic]
drop_memory_set(k, ms) == drop_frames(k, ms.page_table.frames \o AreaTrackers(ms.areas))

(***************************************************************************)
(* One MemorySet in a local variable: built by new_kernel or from_elf,     *)
(* changed by insert_framed_area and remove, and dropped.                  *)
(***************************************************************************)
MaxSetFrames == 14     \* largest number of frames between ekernel and MEMORY_END

SetFrames == {3, MaxSetFrames}

\* the ranges given to insert_framed_area and remove: two pages at
\* 0x10000000, one page at 0x10000 where the images have a segment
SetRanges ==
    {[start |-> VirtAddr_from(268435456), len |-> 8192],
     [start |-> VirtAddr_from(65536), len |-> 4096]}

\* the pages the allocator can hand out
AvailSet(a) == (a.current..(a.end - 1)) \cup Range(a.recycled)

InitSet ==
    /\ InitCommon
    /\ \E n \in SetFrames : phys = [l |-> ekernel, r |-> ekernel + n]
    /\ fa_src \in {"os4-ref", "os4"}
    /\ pt_src \in {"os4-ref", "os4"}
    /\ mem = [p \in phys.l..(phys.r - 1) |-> StaleFrame]

HasSet == memory_set.page_table.root_ppn # None

\* To stay finite the specification follows two memory sets, one after the
\* other: mode is "run" until the first is dropped, "again" until the second
\* is dropped and "done" from then on.
Live == mode \in {"run", "again"}

\* let memory_set = MemorySet::new_kernel();
SetNewKernel ==
    /\ Live
    /\ ~HasSet
    /\ \E r \in {new_kernel(K, pt_src, phys.r)} :
           /\ fa' = r.k.fa
           /\ mem' = r.k.mem
           /\ memory_set' = r.ms
           /\ mode' = IF r.panic THEN "panic" ELSE mode
           /\ last' = [op |-> "new_kernel", panic |-> r.panic, before |-> AvailSet(fa)]
    /\ UNCHANGED <<phys, fa_src, pt_src, v, pt, apps, kernel_space, tm>>

\* let (memory_set, user_sp, entry_point) = MemorySet::from_elf(elf_data);
SetFromElf(elf) ==
    /\ Live
    /\ ~HasSet
    /\ \E r \in {from_elf(K, pt_src, elf)} :
           /\ fa' = r.k.fa
           /\ mem' = r.k.mem
           /\ memory_set' = r.ms
           /\ mode' = IF r.panic THEN "panic" ELSE mode
           /\ last' = [op |-> "from_elf", panic |-> r.panic, before |-> AvailSet(fa)]
    /\ UNCHANGED <<phys, fa_src, pt_src, v, pt, apps, kernel_space, tm>>

\* memory_set.insert_framed_area(start, start + len, R | W | U)
SetInsert(start, len) ==
    /\ Live
    /\ HasSet
    /\ \E r \in {insert_framed_area(K, memory_set, start, va_add(start, len),
                                     MapPermission_R + MapPermission_W + MapPermission_U,
                                     pt_src)} :
           /\ fa' = r.k.fa
           /\ mem' = r.k.mem
           /\ memory_set' = r.ms
           /\ mode' = IF r.panic THEN "panic" ELSE mode
           /\ last' = [op |-> "insert_framed_area", panic |-> r.panic]
    /\ UNCHANGED <<phys, fa_src, pt_src, v, pt, apps, kernel_space, tm>>

\* memory_set.remove(start, len)
SetRemove(start, len) ==
    /\ Live
    /\ HasSet
    /\ \E r \in {remove(K, memory_set, start, len, pt_src)} :
           /\ fa' = r.k.fa
           /\ mem' = r.k.mem
           /\ memory_set' = r.ms
           /\ mode' = IF r.panic THEN "panic" ELSE mode
           /\ last' = [op |-> "remove", ret |-> r.ret, panic |-> r.panic]
    /\ UNCHANGED <<phys, fa_src, pt_src, v, pt, apps, kernel_space, tm>>

\* drop(memory_set)
SetDrop ==
    /\ Live
    /\ HasSet
    /\ \E r \in {drop_memory_set(K, memory_set)} :
           /\ fa' = r.k.fa
           /\ mem' = r.k.mem
           /\ mode' = IF r.panic THEN "panic" ELSE IF mode = "run" THEN "again" ELSE "done"
           /\ last' = [op |-> "drop", panic |-> r.panic]
    /\ memory_set' = NoMemorySet
    /\ UNCHANGED <<phys, fa_src, pt_src, v, pt, apps, kernel_space, tm>>

NextSet ==
    \/ Boot
    \/ SetNewKernel
    \/ \E i \in 1..Len(ElfImages) : SetFromElf(ElfImages[i])
    \/ \E a \in SetRanges : SetInsert(a.start, a.len)
    \/ \E a \in SetRanges : SetRemove(a.start, a.len)
    \/ SetDrop

SpecSet == InitSet /\ [][NextSet]_vars

\* the FrameTrackers a memory set owns: the nodes of its page table and the
\* frames of its areas
Trackers(ms) == ms.page_table.frames \o AreaTrackers(ms.areas)

\* C19: the drop of an address space gives every frame it owns back to the
\* allocator, each exactly once and without an abort: the nodes of the page
\* table with the root, and the frames of the Framed areas. A drop right
\* after the build leaves the allocator with the set of pages it could hand
\* out before the build.
C19_DropReturnsFrames ==
    [][(HasSet /\ last'.op = "drop") =>
         /\ ~last'.panic
         /\ mode' # "panic"
         /\ AvailSet(fa') = AvailSet(fa) \cup Range(Trackers(memory_set))
         /\ Avail(fa') = Avail(fa) + Len(Trackers(memory_set))
         /\ Cardinality(Range(fa'.recycled)) = Len(fa'.recycled)
         /\ (last.op \in {"new_kernel", "from_elf"}) => AvailSet(fa') = last.before]_vars

\* C19 witness: the second address space, built on the frames the first one
\* gave back, has been dropped with eleven or more frames.
C19_Witness ==
    /\ mode = "done"
    /\ last.op = "drop"
    /\ ~last.panic
    /\ fa.current - phys.l >= 11
    /\ Len(fa.recycled) = fa.current - phys.l

(***************************************************************************)
(* Claim about the content of a frame at frame_alloc.                      *)
(***************************************************************************)
\* C20: the frame of every FrameTracker frame_alloc returns is all zero
\* when frame_alloc returns, also when the frame comes from the recycled
\* stack and its last owner left data in it.
C20_FrameZeroed ==
    [][(last'.op = "frame_alloc" /\ last'.ret # None)
          => (last'.ret \in DOMAIN mem' /\ mem'[last'.ret] = ZeroFrame)]_vars

\* C20 witness: frame_alloc has returned a recycled frame that held data.
C20_Witness ==
    /\ last.op = "frame_alloc"
    /\ last.ret # None
    /\ last.ret < fa.current - 1
    /\ last.dirty
    /\ mem[last.ret] = ZeroFrame

(***************************************************************************)
(* The conversions of address.rs as pure functions: an argument is drawn   *)
(* at the start and the operations are applied to it.                      *)
(***************************************************************************)
MaxAddr == 12

\* the usize arguments: the small ones, the ones around a page boundary, the
\* ones around the boundaries of the three indices, and ones above 2^27
AddrInputs ==
    (0..MaxAddr) \cup {511, 512, 513, 4095, 4096, 4097, 8191, 8192, 12288,
                       262143, 262144, 262145, 262656, 134217727, 134217728,
                       134217730, 134480385, 1073741829}

\* VirtAddr::ceil of the copy src in a build with (checks) or without overflow
\* checks: self.0 - 1 of os4-ref underflows at address 0, where the checked
\* build panics (None) and the unchecked one wraps twice and returns 0
VirtAddr_ceil(src, checks, a) ==
    IF src = "os4-ref" /\ a = VirtAddr_from(0) /\ checks THEN None ELSE ceil(a)

InitAddr ==
    /\ mode = "run"
    /\ phys = [l |-> MinPPN, r |-> MinPPN]
    /\ fa_src = "os4-ref"
    /\ pt_src \in {"os4-ref", "os4"}
    /\ mem = <<>>
    /\ fa = StackFrameAllocator_new
    /\ \E n \in AddrInputs : v = <<n>>
    /\ pt = NoPageTable
    /\ apps = <<>>
    /\ kernel_space = NoMemorySet
    /\ tm = NoTaskManager
    /\ memory_set = NoMemorySet
    /\ last = [op |-> "none"]

\* VirtPageNum::from(v).indexes(), indexex() in the os4 draft
Indexes ==
    /\ last' = [op |-> "indexes", arg |-> v[1], ret |-> Idxs(pt_src, v[1])]
    /\ UNCHANGED <<phys, fa_src, pt_src, mode, fa, mem, v, pt, apps, kernel_space, tm, memory_set>>

\* VirtAddr::from(v).floor()
Floor ==
    /\ last' = [op |-> "floor", arg |-> v[1], ret |-> floor(VirtAddr_from(v[1]))]
    /\ UNCHANGED <<phys, fa_src, pt_src, mode, fa, mem, v, pt, apps, kernel_space, tm, memory_set>>

\* VirtAddr::from(v).ceil()
Ceil ==
    /\ \E checks \in BOOLEAN :
          last' = [op |-> "ceil", arg |-> v[1], checks |-> checks,
                   ret |-> VirtAddr_ceil(pt_src, checks, VirtAddr_from(v[1]))]
    /\ UNCHANGED <<phys, fa_src, pt_src, mode, fa, mem, v, pt, apps, kernel_space, tm, memory_set>>

NextAddr ==
    \/ Indexes
    \/ Floor
    \/ Ceil

SpecAddr == InitAddr /\ [][NextAddr]_vars

(***************************************************************************)
(* Claims about the conversions.                                           *)
(***************************************************************************)
\* C21: for every virtual page number v, indexes(v) returns three indices,
\* each in 0..511, most significant first, with
\* idx[0] * 2^18 + idx[1] * 2^9 + idx[2] = v modulo 2^27.
C21_Indexes ==
    last.op = "indexes" =>
        /\ Len(last.ret) = 3
        /\ \A i \in 1..3 : last.ret[i] \in 0..511
        /\ last.ret[1] * 262144 + last.ret[2] * 512 + last.ret[3] = last.arg % 134217728

\* C21 for indexes of os4-ref alone
C21_Indexes_ref ==
    pt_src = "os4-ref" => C21_Indexes

\* indexes of os4-ref has been applied to a page number above 2^27
C21_Witness_ref ==
    /\ pt_src = "os4-ref"
    /\ last.op = "indexes"
    /\ last.arg > 134217728
    /\ last.ret = <<1, 1, 1>>

(***************************************************************************)
(* Claims about the walks of the page table.                               *)
(***************************************************************************)
\* the leaf slot the walk without create reaches for vpn in the next state
SlotNext(vpn) == find_pte(mem', pt', pt_src', vpn)

\* C22: the leaf slot the walk without create reaches for v is the slot
\* map(v, ..) wrote; two virtual page numbers that differ in their low 27
\* bits reach different leaf slots; map(v, ..) and unmap(v) never change the
\* result of translate(w) for a w that differs from v in the low 27 bits.
C22_WalkInvertsMap ==
    [][/\ \A vpn \in PTVpns, a \in MapArgs :
            (Map(vpn, a[1], a[2]) /\ mode' = "run")
               => /\ SlotNext(vpn).found
                  /\ TrNext(vpn) = PageTableEntry_new(a[1], WithV(a[2]))
                  /\ mem' = Store(mem', SlotNext(vpn).node, SlotNext(vpn).idx, TrNext(vpn))
       /\ \A vpn \in PTVpns, w \in PTVpns :
            (HasTable' /\ ~SameLow27(vpn, w) /\ SlotNext(vpn).found /\ SlotNext(w).found)
               => <<SlotNext(vpn).node, SlotNext(vpn).idx>>
                     # <<SlotNext(w).node, SlotNext(w).idx>>
       /\ \A vpn \in PTVpns, w \in PTVpns :
            (/\ ~SameLow27(vpn, w)
             /\ Unmap(vpn) \/ \E a \in MapArgs : Map(vpn, a[1], a[2]))
               => TrNext(w) = Tr(w)]_vars

\* C23: floor(addr) and ceil(addr) are equal if and only if addr is page
\* aligned, for every address including 0; for an address that is not
\* aligned ceil(addr) = floor(addr) + 1.
C23_FloorCeil ==
    last.op = "ceil" =>
        /\ last.ret # None
        /\ (last.ret = floor(VirtAddr_from(last.arg)))
              <=> (page_offset(VirtAddr_from(last.arg)) = 0)
        /\ page_offset(VirtAddr_from(last.arg)) # 0
              => last.ret = floor(VirtAddr_from(last.arg)) + 1

\* C23 on the addresses above 0
C23_FloorCeil_positive ==
    v[1] # 0 => C23_FloorCeil

(***************************************************************************)
(* A page table and the views of it that are built from its token.         *)
(* A token is a 64 bit word kept as [hi, lo]: hi its bits 44..63 and lo    *)
(* its bits 0..43, the bits from_token keeps.                              *)
(***************************************************************************)
MaxViewFrames == 5

\* 8usize << 60 | self.root_ppn.0, for a root below 2^44
token(t) == [hi |-> 8 * 65536, lo |-> t.root_ppn]

from_token_owning(satp) == [root_ppn |-> satp.lo, frames |-> <<satp.lo>>]

\* root_ppn: satp & ((1 << 44) - 1), frames: Vec::new()
from_token(satp) == [root_ppn |-> satp.lo, frames |-> <<>>]

InitView ==
    /\ InitCommon
    /\ \E n \in {0, 1, MaxViewFrames} : phys = [l |-> MinPPN, r |-> MinPPN + n]
    /\ fa_src = "os4-ref"
    /\ pt_src \in {"os4-ref", "os4"}
    /\ mem = [p \in phys.l..(phys.r - 1) |-> ZeroFrame]

\* { let view = PageTable::from_token(page_table.token()); view.translate(vpn) }
\* with the drop of the view at the end of the block
TokenView(vpn) ==
    /\ mode = "run"
    /\ HasTable
    /\ \E view \in {from_token(token(pt))} :
       \E r \in {drop_frames(K, view.frames)} :
          /\ fa' = r.k.fa
          /\ mem' = r.k.mem
          /\ mode' = IF r.panic THEN "panic" ELSE mode
          /\ last' = [op |-> "view", vpn |-> vpn, token |-> token(pt),
                      root |-> view.root_ppn, owned |-> Len(view.frames),
                      ret |-> translate(mem, view, pt_src, vpn)]
    /\ UNCHANGED <<phys, fa_src, pt_src, v, pt, apps, kernel_space, tm, memory_set>>

NextView ==
    \/ Boot
    \/ PageTableNew
    \/ \E vpn \in PTVpns, a \in MapArgs : Map(vpn, a[1], a[2])
    \/ \E vpn \in PTVpns : Unmap(vpn)
    \/ \E vpn \in PTVpns : TokenView(vpn)

SpecView == InitView /\ [][NextView]_vars

MaxRemoveFrames == 14

\* no remove is under way
Idle == last.op = "remove_step" => last.pc = "return"

InitRemove ==
    /\ InitCommon
    /\ \E n \in {3, MaxRemoveFrames} : phys = [l |-> ekernel, r |-> ekernel + n]
    /\ fa_src = "os4-ref"
    /\ pt_src \in {"os4-ref", "os4"}
    /\ mem = [p \in phys.l..(phys.r - 1) |-> StaleFrame]

\* memory_set.remove(start, len) up to the first call of unmap_one, or to the
\* return of -1 when no area has these bounds
RemoveBegin(start, len) ==
    /\ mode = "run"
    /\ HasSet
    /\ Idle
    /\ \E hits \in {RemoveHits(memory_set, start, len)} :
          IF hits = {}
          THEN last' = [op |-> "remove_step", pc |-> "return", index |-> 0, vpn |-> 0,
                        ret |-> -1]
          ELSE \E i \in {CHOOSE i \in hits : \A j \in hits : i <= j} :
                  last' = [op |-> "remove_step",
                           pc |-> IF memory_set.areas[i].vpn_range.l
                                        < memory_set.areas[i].vpn_range.r
                                  THEN "data_frames.remove" ELSE "areas.remove",
                           index |-> i, vpn |-> memory_set.areas[i].vpn_range.l, ret |-> 0]
    /\ UNCHANGED <<phys, fa_src, pt_src, mode, fa, mem, v, pt, apps, kernel_space, tm,
                   memory_set>>

\* unmap_one: self.data_frames.remove(&vpn);
UnmapOneRemove ==
    /\ mode = "run"
    /\ last.op = "remove_step"
    /\ last.pc = "data_frames.remove"
    /\ \E r \in {data_frames_remove(K, memory_set.areas[last.index], last.vpn)} :
          /\ fa' = r.k.fa
          /\ mem' = r.k.mem
          /\ memory_set' = [memory_set EXCEPT !.areas[last.index] = r.area]
          /\ mode' = IF r.panic THEN "panic" ELSE mode
    /\ last' = [last EXCEPT !.pc = "page_table.unmap"]
    /\ UNCHANGED <<phys, fa_src, pt_src, v, pt, apps, kernel_space, tm>>

\* unmap_one: page_table.unmap(vpn), and the step of the loop of MapArea::unmap
UnmapOneUnmap ==
    /\ mode = "run"
    /\ last.op = "remove_step"
    /\ last.pc = "page_table.unmap"
    /\ \E u \in {unmap(K, memory_set.page_table, pt_src, last.vpn)} :
          /\ fa' = u.k.fa
          /\ mem' = u.k.mem
          /\ memory_set' = [memory_set EXCEPT !.page_table = u.pt]
          /\ mode' = IF u.panic THEN "panic" ELSE mode
    /\ last' = IF last.vpn + 1 < memory_set.areas[last.index].vpn_range.r
               THEN [last EXCEPT !.pc = "data_frames.remove", !.vpn = @ + 1]
               ELSE [last EXCEPT !.pc = "areas.remove"]
    /\ UNCHANGED <<phys, fa_src, pt_src, v, pt, apps, kernel_space, tm>>

\* self.areas.remove(index); return 0;
RemoveEnd ==
    /\ mode = "run"
    /\ last.op = "remove_step"
    /\ last.pc = "areas.remove"
    /\ memory_set' = [memory_set EXCEPT
                        !.areas = SubSeq(@, 1, last.index - 1)
                                  \o SubSeq(@, last.index + 1, Len(@))]
    /\ last' = [last EXCEPT !.pc = "return"]
    /\ UNCHANGED <<phys, fa_src, pt_src, mode, fa, mem, v, pt, apps, kernel_space, tm>>

NextRemove ==
    \/ Boot
    \/ \E i \in 1..Len(ElfImages) : mode = "run" /\ SetFromElf(ElfImages[i])
    \/ \E r \in SetRanges : mode = "run" /\ Idle /\ SetInsert(r.start, r.len)
    \/ \E r \in SetRanges : RemoveBegin(r.start, r.len)
    \/ UnmapOneRemove
    \/ UnmapOneUnmap
    \/ RemoveEnd

SpecRemove == InitRemove /\ [][NextRemove]_vars

\* C25: removing a Framed area keeps the order 'unmap before free': the leaf
\* entry of a page is cleared before the frame of the page goes back to the
\* allocator, so in no state of a remove does a valid leaf entry of a page
\* of an area point to a frame the allocator can hand out.
C25_UnmapBeforeFree ==
    (last.op = "remove_step" /\ mode = "run") =>
        \A i \in 1..Len(memory_set.areas) :
            \A vpn \in memory_set.areas[i].vpn_range.l..(memory_set.areas[i].vpn_range.r - 1) :
                Mapped(Entry(memory_set, vpn))
                   => pte_ppn(Entry(memory_set, vpn)) \notin AvailSet(fa)

\* C25 between two removes: with no remove under way no valid leaf entry of
\* a page of an area points to a frame the allocator can hand out
C25_UnmapBeforeFree_idle ==
    (mode = "run" /\ HasSet /\ Idle) =>
        \A i \in 1..Len(memory_set.areas) :
            \A vpn \in memory_set.areas[i].vpn_range.l..(memory_set.areas[i].vpn_range.r - 1) :
                Mapped(Entry(memory_set, vpn))
                   => pte_ppn(Entry(memory_set, vpn)) \notin AvailSet(fa)

\* the entries of the intermediate nodes on the path of vpn are all valid
PathExists(vpn) == find_pte(mem, pt, pt_src, vpn).found

\* C26: unmap is a walk without create: unmap(v) never allocates a frame and
\* never adds an intermediate node to the table, in particular when an
\* intermediate node on the path of v does not exist, where it only aborts.
C26_UnmapNoCreate ==
    [][\A vpn \in PTVpns :
         Unmap(vpn) =>
            /\ fa' = fa
            /\ pt'.frames = pt.frames
            /\ ~PathExists(vpn) => (mode' = "panic" /\ mem' = mem)]_vars

\* C26 for the pages whose intermediate nodes exist
C26_UnmapNoCreate_path ==
    [][\A vpn \in PTVpns :
         (Unmap(vpn) /\ PathExists(vpn)) => (fa' = fa /\ pt'.frames = pt.frames)]_vars

\* the entry at index i (from 1) of the path of vpn, read node by node from
\* the root; None below an entry that is not valid
PathEntry(vpn, i) ==
    LET idx == Idxs(pt_src, vpn)
        e1  == Word(Frame(mem, pt.root_ppn), idx[1])
        e2  == IF is_valid(e1) THEN Word(Frame(mem, pte_ppn(e1)), idx[2]) ELSE None
        e3  == IF e2 # None /\ is_valid(e2)
               THEN Word(Frame(mem, pte_ppn(e2)), idx[3]) ELSE None
    IN  <<e1, e2, e3>>[i]

\* C27: translate(v) is a walk without create: it returns not-found whenever
\* an intermediate entry on the path of v is not valid, otherwise a copy of
\* the leaf entry, and it leaves the entries of the table, the frames of the
\* table and the frame allocator unchanged.
C27_TranslateNoCreate ==
    [][\A vpn \in PTVpns :
         Translate(vpn) =>
            /\ last'.ret = PathEntry(vpn, 3)
            /\ (~is_valid(PathEntry(vpn, 1)) => last'.ret = None)
            /\ (PathEntry(vpn, 2) # None /\ ~is_valid(PathEntry(vpn, 2)) => last'.ret = None)
            /\ mem' = mem /\ pt' = pt /\ fa' = fa /\ mode' = mode]_vars

\* C27 witness: translate has returned the copy of a leaf entry that is not
\* valid, on a table with a second-level node that lacks an entry.
C27_Witness ==
    /\ last.op = "translate"
    /\ last.ret = PageTableEntry_empty
    /\ Len(pt.frames) >= 3
    /\ \E vpn \in PTVpns : is_valid(PathEntry(vpn, 1)) /\ ~is_valid(PathEntry(vpn, 2))

\* the valid entries of the node in frame ppn
ValidEntries(ppn) ==
    {Frame(mem, ppn)[i] : i \in {j \in DOMAIN Frame(mem, ppn) : is_valid(Frame(mem, ppn)[j])}}

\* the second-level and the third-level nodes reachable from the root
Level2Nodes == {pte_ppn(e) : e \in ValidEntries(pt.root_ppn)}
Level3Nodes == UNION {{pte_ppn(e) : e \in ValidEntries(n)} : n \in Level2Nodes}

\* the number of valid non-leaf entries, one per index prefix of length 1 or 2
\* that has a node
Prefixes ==
    Cardinality({i \in DOMAIN Frame(mem, pt.root_ppn) : is_valid(Frame(mem, pt.root_ppn)[i])})
    + Cardinality({<<n, i>> \in UNION {{<<m, j>> : j \in DOMAIN Frame(mem, m)} : m \in Level2Nodes} :
                      is_valid(Frame(mem, n)[i])})

\* C28: in every state of a table created by PageTable::new, every node
\* reachable from the root through valid non-leaf entries is backed by
\* exactly one FrameTracker in frames, every non-leaf entry carries the
\* valid bit alone, and an intermediate node is allocated at most once per
\* index prefix: frames holds the root and one node per prefix.
C28_NodesOwned ==
    HasTable =>
        /\ \A n \in {pt.root_ppn} \cup Level2Nodes \cup Level3Nodes :
              Cardinality({i \in 1..Len(pt.frames) : pt.frames[i] = n}) = 1
        /\ \A e \in ValidEntries(pt.root_ppn) : pte_flags(e) = PTE_V
        /\ \A n \in Level2Nodes : \A e \in ValidEntries(n) : pte_flags(e) = PTE_V
        /\ Len(pt.frames) = 1 + Prefixes

\* C28 witness: a table of four nodes: the root, one second-level node and
\* two leaf nodes, one of them shared by two mapped pages.
C28_Witness ==
    /\ HasTable
    /\ Len(pt.frames) = 4
    /\ Cardinality(Level2Nodes) = 1
    /\ Cardinality(Level3Nodes) = 2
    /\ Mapped(Tr(0)) /\ Mapped(Tr(2)) /\ Mapped(Tr(512))

(***************************************************************************)
(* Claim about the order of the allocator.                                 *)
(***************************************************************************)
\* C29: the allocator follows stack discipline: alloc returns the most
\* recently deallocated page whenever the recycled list is not empty and
\* advances current only when the recycled list is empty; current never
\* decreases and never exceeds end.
C29_StackDiscipline ==
    [][/\ Alloc =>
            IF fa.recycled # <<>>
            THEN /\ last'.ret = fa.recycled[Len(fa.recycled)]
                 /\ (last.op = "dealloc" /\ ~last.panic) => last'.ret = last.arg
                 /\ fa'.recycled = SubSeq(fa.recycled, 1, Len(fa.recycled) - 1)
                 /\ fa'.current = fa.current
            ELSE /\ fa'.recycled = <<>>
                 /\ IF fa.current = fa.end
                    THEN last'.ret = None /\ fa'.current = fa.current
                    ELSE last'.ret = fa.current /\ fa'.current = fa.current + 1
       /\ fa'.current >= fa.current
       /\ fa'.current <= fa'.end]_vars

\* C29 witness: with fresh pages left, alloc has returned the page of the
\* last dealloc and not the older recycled page below it.
C29_Witness ==
    /\ last.op = "alloc"
    /\ last.ret # None
    /\ last.ret < fa.current - 1
    /\ fa.current < fa.end
    /\ Len(fa.recycled) = 1
    /\ fa.recycled[1] # last.ret

(***************************************************************************)
(* Claim about the page-to-frame table of a Framed area.                   *)
(***************************************************************************)
\* data_frames has one entry per page of the range and no others, with
\* pairwise distinct frames, and the leaf entry of each page holds the frame
\* of the page with the permission bits of the area plus V
FramedOneToOne(ms, area) ==
    /\ DOMAIN area.data_frames = area.vpn_range.l..(area.vpn_range.r - 1)
    /\ \A p \in DOMAIN area.data_frames, q \in DOMAIN area.data_frames :
          p # q => area.data_frames[p] # area.data_frames[q]
    /\ \A p \in DOMAIN area.data_frames :
          Entry(ms, p) = PageTableEntry_new(area.data_frames[p], WithV(area.map_perm))

\* areas[i] is the area a remove is working on
UnderRemoval(i) == last.op = "remove_step" /\ last.pc # "return" /\ last.index = i

\* C30: once MapArea::map has completed on a Framed area, its data_frames
\* has exactly one entry per page of [start, end), the frames are pairwise
\* distinct and the leaf entry of each page holds the recorded frame with
\* the permission bits of the area plus V; after MapArea::unmap data_frames
\* is empty.
C30_FramedOneToOne ==
    \A i \in 1..Len(memory_set.areas) :
        memory_set.areas[i].map_type = "Framed" =>
            IF UnderRemoval(i)
            THEN last.pc = "areas.remove" => DOMAIN memory_set.areas[i].data_frames = {}
            ELSE FramedOneToOne(memory_set, memory_set.areas[i])

\* C30 witness: MapArea::unmap has completed on an area of two pages, in a
\* set that holds four mapped areas besides it, one of them of two pages.
C30_Witness ==
    /\ mode = "run"
    /\ last.op = "remove_step"
    /\ last.pc = "areas.remove"
    /\ Len(memory_set.areas) = 5
    /\ memory_set.areas[last.index].vpn_range.r - memory_set.areas[last.index].vpn_range.l = 2
    /\ \E i \in 1..Len(memory_set.areas) :
          /\ i # last.index
          /\ Cardinality(DOMAIN memory_set.areas[i].data_frames) = 2

(***************************************************************************)
(* Claims about the insertion made by sys_mmap.                            *)
(***************************************************************************)
\* the pages whose translation is compared before and after a system call:
\* the pages at 0x10000 and 0x10000000 and their neighbours, the trap
\* context and the trampoline
ProbePages ==
    (15..20) \cup (65535..65540) \cup {TRAP_CONTEXT_VPN - 1, TRAP_CONTEXT_VPN, TRAMPOLINE_VPN}

\* the pages of [floor(start), ceil(start + len))
PageRange(start, len) == floor(start)..(ceil(va_add(start, len)) - 1)

\* the insertion proper: one Framed area more, over exactly the pages of the
\* range, each page on a frame that was free before, is zero now and is
\* mapped with U, the requested bits and V (R, W, X are the bits 1, 2, 3 of
\* an entry and the bits 0, 1, 2 of port)
InsertedArea(start, len, port) ==
    LET old == CurrentSet(tm)
        new == CurrentSet(tm')
    IN  /\ Len(new.areas) = Len(old.areas) + 1
        /\ SubSeq(new.areas, 1, Len(old.areas)) = old.areas
        /\ new.areas[Len(new.areas)].map_type = "Framed"
        /\ new.areas[Len(new.areas)].vpn_range
              = [l |-> floor(start), r |-> ceil(va_add(start, len))]
        /\ \A p \in PageRange(start, len) :
              LET e == translate(mem', new.page_table, pt_src, p)
              IN  /\ Mapped(e)
                  /\ pte_flags(e) = PTE_V + PTE_U + 2 * port
                  /\ pte_ppn(e) \in AvailSet(fa) \ AvailSet(fa')
                  /\ Frame(mem', pte_ppn(e)) = ZeroFrame

MaxCopyFrames == 7
MaxCopyAreas == 2

\* [start, start + len) of the areas: none, two and one page
CopyRanges ==
    {[start |-> VirtAddr_from(65536), len |-> 0],
     [start |-> VirtAddr_from(65536), len |-> 8192],
     [start |-> VirtAddr_from(77824), len |-> 4096]}

\* the data: empty, one word, a full page, a page and four bytes, two pages
CopyDatas ==
    {[len |-> 0, words |-> <<>>],
     [len |-> 8, words |-> (0 :> 5)],
     [len |-> 4096, words |-> (0 :> 7) @@ (511 :> 9)],
     [len |-> 4100, words |-> (0 :> 11) @@ (512 :> 13)],
     [len |-> 8192, words |-> (511 :> 15) @@ (1023 :> 17)]}

\* the bytes an area holds
Capacity(area) == (area.vpn_range.r - area.vpn_range.l) * PAGE_SIZE

InitCopy ==
    /\ InitCommon
    /\ \E n \in {2, MaxCopyFrames} : phys = [l |-> ekernel, r |-> ekernel + n]
    /\ fa_src = "os4-ref"
    /\ pt_src \in {"os4-ref", "os4"}
    /\ mem = [p \in phys.l..(phys.r - 1) |-> StaleFrame]

\* let mut memory_set = MemorySet::new_bare();
CopyNewBare ==
    /\ mode = "run"
    /\ ~HasSet
    /\ \E r \in {new_bare(K)} :
           /\ fa' = r.k.fa
           /\ mem' = r.k.mem
           /\ memory_set' = r.ms
           /\ mode' = IF r.panic THEN "panic" ELSE mode
           /\ last' = [op |-> "new_bare", panic |-> r.panic]
    /\ UNCHANGED <<phys, fa_src, pt_src, v, pt, apps, kernel_space, tm>>

\* memory_set.areas[i].copy_data(&mut memory_set.page_table, data), on an area
\* that holds the data and whose frames are clear
CopyData(i, data) ==
    /\ mode = "run"
    /\ HasSet
    /\ i \in 1..Len(memory_set.areas)
    /\ data.len <= Capacity(memory_set.areas[i])
    /\ \A p \in DOMAIN memory_set.areas[i].data_frames :
          Frame(mem, memory_set.areas[i].data_frames[p]) = ZeroFrame
    /\ \E r \in {copy_data(mem, memory_set.page_table, memory_set.areas[i], pt_src, data)} :
           /\ mem' = r.mem
           /\ mode' = IF r.panic THEN "panic" ELSE mode
           /\ last' = [op |-> "copy_data", index |-> i, data |-> data, panic |-> r.panic]
    /\ UNCHANGED <<phys, fa_src, pt_src, fa, v, pt, apps, kernel_space, tm, memory_set>>

NextCopy ==
    \/ Boot
    \/ CopyNewBare
    \/ \E r \in CopyRanges :
          mode = "run" /\ Len(memory_set.areas) < MaxCopyAreas /\ SetInsert(r.start, r.len)
    \/ \E i \in 1..MaxCopyAreas, data \in CopyDatas : CopyData(i, data)

SpecCopy == InitCopy /\ [][NextCopy]_vars

\* copy_data has returned and the frames hold what the claim says: word j
\* of the data is word j mod 512 of the frame of page start + j div 512,
\* the rest of the area is zero, and every frame outside the area is as
\* it was
CopiedExactly ==
    LET a == memory_set.areas[last'.index]
    IN  /\ ~last'.panic
        /\ \A p \in a.vpn_range.l..(a.vpn_range.r - 1) : \A w \in 0..511 :
              Word(Frame(mem', a.data_frames[p]), w)
                 = Word(last'.data.words, 512 * (p - a.vpn_range.l) + w)
        /\ \A ppn \in (DOMAIN mem) \ {a.data_frames[p] : p \in DOMAIN a.data_frames} :
              mem'[ppn] = mem[ppn]

\* C32: copy_data on a Framed area with data no longer than the capacity of
\* the area writes byte i of the data to offset i mod 4096 of the frame of
\* page start + i div 4096, leaves every byte of the area beyond the data
\* zero and writes to no frame outside the area, also for empty data and
\* for an empty area.
C32_CopyData ==
    [][(mode = "run" /\ last'.op = "copy_data") => CopiedExactly]_vars

\* C32 for the areas of one page or more
C32_CopyData_pages ==
    [][(/\ mode = "run"
        /\ last'.op = "copy_data"
        /\ Capacity(memory_set.areas[last'.index]) > 0) => CopiedExactly]_vars

(***************************************************************************)
(* The scheduler alone: the tasks of a loaded kernel, run_first_task and   *)
(* the system calls that switch tasks. The address spaces of the tasks     *)
(* play no part and are left out.                                          *)
(***************************************************************************)
MaxTasks == 5

InitTasks ==
    /\ mode = "loaded"
    /\ phys = [l |-> MinPPN, r |-> MinPPN]
    /\ fa_src = "os4-ref"
    /\ pt_src = "os4-ref"
    /\ fa = StackFrameAllocator_new
    /\ mem = <<>>
    /\ pt = NoPageTable
    /\ apps = <<>>
    /\ kernel_space = NoMemorySet
    /\ memory_set = NoMemorySet
    /\ \E n \in 1..MaxTasks :
          tm = [num_app |-> n,
                tasks |-> [i \in 1..n |->
                             [task_status |-> "Ready",
                              task_cx |-> kernel_stack_position(i - 1).top,
                              memory_set |-> NoMemorySet,
                              trap_cx_ppn |-> 0,
                              base_size |-> VirtAddr_from(0)]],
                current_task |-> 0]
    /\ last = [op |-> "load", panic |-> FALSE]

InitSched == InitTasks /\ v = <<>>

NextSched ==
    \/ RunFirstTask
    \/ SysYield
    \/ SysExit

SpecSched == InitSched /\ [][NextSched]_vars

(***************************************************************************)
(* Claims about the scheduler.                                             *)
(***************************************************************************)
\* the place of task id in the cyclic order current + 1, current + 2, ..:
\* 0 for the task after the current one, num_app - 1 for the current one
Turn(tmgr, id) == (id + tmgr.num_app - tmgr.current_task - 1) % tmgr.num_app

\* the tasks that are Ready when run_next_task calls find_next_task: the
\* current task is Ready after a yield and Exited after an exit
ReadyAtSwitch ==
    {id \in 0..(tm.num_app - 1) :
        IF id = tm.current_task THEN last'.op = "sys_yield"
        ELSE Task(tm, id).task_status = "Ready"}

exclusive_access(b) == [borrowed |-> TRUE, panic |-> b]

\* a drop(inner) that leaves the guard live
drop_inner_leaked(b) == b

\* drop(inner), and the drop of the guard at the end of its scope
drop_inner(b) == FALSE

Step(op, pc, b, next, args) ==
    [op |-> op, pc |-> pc, borrowed |-> b, next |-> next, args |-> args, panic |-> FALSE]

InKernel(ops, pcs) == mode = "kernel" /\ last.op \in ops /\ last.pc \in pcs

\* a guard of the inner state is live
Borrowed == mode \in {"kernel", "run"} /\ last.borrowed

\* let inner = self.inner.exclusive_access() on entry of op, then pc
Enter(op, pc, next, args) ==
    \E g \in {exclusive_access(Borrowed)} :
        IF g.panic
        THEN /\ mode' = "panic"
             /\ last' = [op |-> "BorrowMutError", panic |-> TRUE]
        ELSE /\ mode' = "kernel"
             /\ last' = Step(op, pc, g.borrowed, next, args)

BorrowStarts == {VirtAddr_from(65536), VirtAddr_from(268435456)}
BorrowLens == {4096}
BorrowPorts == {3}

RunFirstTaskBorrow ==
    /\ mode = "loaded"
    /\ tm.num_app > 0
    /\ Enter("run_first_task", "inner", 0, <<>>)
    /\ UNCHANGED <<phys, fa_src, pt_src, fa, mem, v, pt, apps, kernel_space, tm, memory_set>>

RunFirstTaskDrop ==
    /\ InKernel({"run_first_task"}, {"inner"})
    /\ tm' = [tm EXCEPT !.tasks[1].task_status = "Running"]
    /\ last' = [last EXCEPT !.pc = "__switch", !.borrowed = drop_inner(last.borrowed)]
    /\ UNCHANGED <<phys, fa_src, pt_src, mode, fa, mem, v, pt, apps, kernel_space, memory_set>>

\* __switch: the next task runs in user mode
Switch ==
    /\ InKernel({"run_first_task", "sys_yield", "sys_exit"}, {"__switch"})
    /\ mode' = "run"
    /\ last' = [last EXCEPT !.pc = "user"]
    /\ UNCHANGED <<phys, fa_src, pt_src, fa, mem, v, pt, apps, kernel_space, tm, memory_set>>

\* sys_yield and sys_exit: the exclusive_access of mark_current_suspended
\* and of mark_current_exited
MarkBorrow(op) ==
    /\ UserMode
    /\ Enter(op, "mark_current", None, <<>>)
    /\ UNCHANGED <<phys, fa_src, pt_src, fa, mem, v, pt, apps, kernel_space, tm, memory_set>>

MarkReturn ==
    /\ InKernel({"sys_yield", "sys_exit"}, {"mark_current"})
    /\ tm' = IF last.op = "sys_yield" THEN mark_current_suspended(tm)
             ELSE mark_current_exited(tm)
    /\ last' = [last EXCEPT !.pc = "run_next_task", !.borrowed = drop_inner(last.borrowed)]
    /\ UNCHANGED <<phys, fa_src, pt_src, mode, fa, mem, v, pt, apps, kernel_space, memory_set>>

FindNextTaskBorrow ==
    /\ InKernel({"sys_yield", "sys_exit"}, {"run_next_task"})
    /\ Enter(last.op, "find_next_task", None, <<>>)
    /\ UNCHANGED <<phys, fa_src, pt_src, fa, mem, v, pt, apps, kernel_space, tm, memory_set>>

FindNextTaskReturn ==
    /\ InKernel({"sys_yield", "sys_exit"}, {"find_next_task"})
    /\ last' = [last EXCEPT !.pc = "if let", !.next = find_next_task(tm),
                            !.borrowed = drop_inner(last.borrowed)]
    /\ UNCHANGED <<phys, fa_src, pt_src, mode, fa, mem, v, pt, apps, kernel_space, tm, memory_set>>

\* if let Some(next) = .. { let mut inner = self.inner.exclusive_access(); ..
\* } else { panic!("All applications completed!") }
RunNextTaskBorrow ==
    /\ InKernel({"sys_yield", "sys_exit"}, {"if let"})
    /\ IF last.next = None
       THEN /\ mode' = "completed"
            /\ last' = [last EXCEPT !.pc = "panic", !.panic = TRUE]
       ELSE Enter(last.op, "inner", last.next, <<>>)
    /\ UNCHANGED <<phys, fa_src, pt_src, fa, mem, v, pt, apps, kernel_space, tm, memory_set>>

RunNextTaskDrop ==
    /\ InKernel({"sys_yield", "sys_exit"}, {"inner"})
    /\ tm' = [tm EXCEPT !.tasks[last.next + 1].task_status = "Running",
                        !.current_task = last.next]
    /\ last' = [last EXCEPT !.pc = "__switch", !.borrowed = drop_inner(last.borrowed)]
    /\ UNCHANGED <<phys, fa_src, pt_src, mode, fa, mem, v, pt, apps, kernel_space, memory_set>>

SysMmapBorrow(start, len, port) ==
    /\ UserMode
    /\ Enter("sys_mmap", "inner", None, <<start, len, port>>)
    /\ UNCHANGED <<phys, fa_src, pt_src, fa, mem, v, pt, apps, kernel_space, tm, memory_set>>

SysMunmapBorrow(start, len) ==
    /\ UserMode
    /\ Enter("sys_munmap", "inner", None, <<start, len>>)
    /\ UNCHANGED <<phys, fa_src, pt_src, fa, mem, v, pt, apps, kernel_space, tm, memory_set>>

\* the body of TaskManager::sys_mmap or sys_munmap and its return, where
\* the guard goes out of scope
SysMapReturn ==
    /\ InKernel({"sys_mmap", "sys_munmap"}, {"inner"})
    /\ \E r \in {IF last.op = "sys_mmap"
                 THEN sys_mmap(K, tm, last.args[1], last.args[2], last.args[3], pt_src)
                 ELSE sys_munmap(K, tm, last.args[1], last.args[2], pt_src)} :
           /\ fa' = r.k.fa
           /\ mem' = r.k.mem
           /\ tm' = r.tm
           /\ mode' = IF r.panic THEN "panic" ELSE "run"
           /\ last' = IF r.panic THEN [op |-> last.op, panic |-> TRUE]
                      ELSE [last EXCEPT !.pc = "user",
                                        !.borrowed = drop_inner(last.borrowed)]
    /\ UNCHANGED <<phys, fa_src, pt_src, v, pt, apps, kernel_space, memory_set>>

NextBorrow ==
    \/ MmInit
    \/ LoadApps
    \/ RunFirstTaskBorrow
    \/ RunFirstTaskDrop
    \/ Switch
    \/ MarkBorrow("sys_yield")
    \/ MarkBorrow("sys_exit")
    \/ MarkReturn
    \/ FindNextTaskBorrow
    \/ FindNextTaskReturn
    \/ RunNextTaskBorrow
    \/ RunNextTaskDrop
    \/ \E start \in BorrowStarts, len \in BorrowLens, port \in BorrowPorts :
           SysMmapBorrow(start, len, port)
    \/ \E start \in BorrowStarts, len \in BorrowLens : SysMunmapBorrow(start, len)
    \/ SysMapReturn

SpecBorrow == InitLoad /\ [][NextBorrow]_vars

\* C34: no guard of the inner state of the task manager is live when
\* __switch is executed in run_first_task and run_next_task or when the
\* running task is back in user mode after sys_mmap or sys_munmap, no
\* exclusive_access ever aborts on a live guard, and a step that changes the
\* running task leaves every address space, the allocator and the memory as
\* they were.
C34_NoBorrowAcrossSwitch ==
    [][/\ (mode' = "kernel" /\ last'.pc = "__switch") => ~last'.borrowed
       /\ mode' = "run" => ~last'.borrowed
       /\ last'.op # "BorrowMutError"
       /\ (tm'.current_task # tm.current_task \/ (InKernel({"sys_yield", "sys_exit"}, {"__switch"}))
            \/ mode' = "completed")
          => /\ fa' = fa
             /\ mem' = mem
             /\ \A i \in 1..tm.num_app : tm'.tasks[i].memory_set = tm.tasks[i].memory_set]_vars

\* C34 witness: the second task runs after a switch from the first, which
\* had mapped a page before it yielded, and the inner state is free.
C34_Witness ==
    /\ mode = "run"
    /\ last.op = "sys_yield"
    /\ last.pc = "user"
    /\ ~last.borrowed
    /\ tm.num_app = 2
    /\ tm.current_task = 1
    /\ Len(tm.tasks[1].memory_set.areas) > Len(tm.tasks[2].memory_set.areas)

(***************************************************************************)
(* sys_munmap on the address space from_elf built: the running task asks   *)
(* for the ranges of its own segments, of its user stack and of the        *)
(* TRAP_CONTEXT page, and for a range it has mapped itself.                *)
(***************************************************************************)
\* 0x10000, 0x12000 (the user stack of the first image), 0x10000000 and
\* TRAP_CONTEXT
UnmapStarts ==
    {VirtAddr_from(65536), VirtAddr_from(73728), VirtAddr_from(268435456), TRAP_CONTEXT}
UnmapLens == {4096, 8192}

NextUnmap ==
    \/ MmInit
    \/ LoadApps
    \/ RunFirstTask
    \/ SysMmap(VirtAddr_from(268435456), PAGE_SIZE, 3)
    \/ \E start \in UnmapStarts, len \in UnmapLens : SysMunmap(start, len)

SpecUnmap == InitLoad /\ [][NextUnmap]_vars

\* the pages of the Load segments of an image
SegmentPages(elf) ==
    UNION {floor(VirtAddr_from(elf.ph[j].vaddr))
             ..(ceil(VirtAddr_from(elf.ph[j].vaddr + elf.ph[j].mem_size)) - 1) :
           j \in {j \in 1..Len(elf.ph) : elf.ph[j].type = "Load"}}

\* the pages of the user stack of a task: the USER_STACK_SIZE bytes below
\* the user_sp from_elf returned
StackPages(tcb) ==
    (floor(tcb.base_size) - USER_STACK_SIZE \div PAGE_SIZE)..(floor(tcb.base_size) - 1)

\* C35: while the tasks run, whatever sys_mmap and sys_munmap calls they
\* have issued, the TRAP_CONTEXT page of every task is mapped to the frame
\* cached as trap_cx_ppn, that frame is held by an area of the task and is
\* not with the allocator, and every page of the Load segments and of the
\* user stack of the task is mapped.
C35_ElfAreasStay ==
    mode = "run"
    => \A i \in 1..tm.num_app :
         LET tcb == tm.tasks[i]
             e   == Entry(tcb.memory_set, TRAP_CONTEXT_VPN)
         IN  /\ Mapped(e)
             /\ pte_ppn(e) = tcb.trap_cx_ppn
             /\ tcb.trap_cx_ppn \in Range(AreaTrackers(tcb.memory_set.areas))
             /\ tcb.trap_cx_ppn \notin AvailSet(fa)
             /\ \A vpn \in SegmentPages(apps[i]) \cup StackPages(tcb) :
                    Mapped(Entry(tcb.memory_set, vpn))

\* the part of C35 on the TRAP_CONTEXT page of the running task; it fails
\* after sys_munmap(TRAP_CONTEXT, 4096)
C35_TrapContextStays ==
    mode = "run" => Mapped(Entry(CurrentSet(tm), TRAP_CONTEXT_VPN))

\* the part of C35 on the user stack of the running task; it fails after
\* sys_munmap(0x12000, 8192)
C35_StackStays ==
    mode = "run" => \A vpn \in StackPages(Task(tm, tm.current_task)) :
                        Mapped(Entry(CurrentSet(tm), vpn))

\* no step but a sys_munmap takes a page of from_elf away: sys_mmap and the
\* task switches keep them
C35_ElfAreasStay_but_munmap ==
    [][(last'.op # "sys_munmap" /\ C35_ElfAreasStay) => C35_ElfAreasStay']_vars

(***************************************************************************)
(* Claims about the frames of the address spaces that are alive together.  *)
(***************************************************************************)
\* the address spaces alive: KERNEL_SPACE and the memory set of every task
Spaces == <<kernel_space>> \o [i \in 1..tm.num_app |-> tm.tasks[i].memory_set]

\* the valid leaf entries of the Framed areas of ms, as <<page, frame>>
FramedLeaves(ms) ==
    {<<vpn, pte_ppn(Entry(ms, vpn))>> :
        vpn \in {vpn \in UNION {ms.areas[i].vpn_range.l..(ms.areas[i].vpn_range.r - 1) :
                                  i \in {i \in 1..Len(ms.areas) :
                                            ms.areas[i].map_type = "Framed"}} :
                    Mapped(Entry(ms, vpn))}}

PhysStore(m, ppn, off, bits) ==
    Store(m, ppn + off \div PAGE_SIZE, (off % PAGE_SIZE) \div 8, bits)

\* sys_get_time(ts, _tz) when get_time_us() returns us; the result is
\* [k, ret, panic], panic the unwrap of a translate that found nothing
sys_get_time(k, tmgr, ts, us, src) ==
    With(translate(k.mem, from_token(token(CurrentSet(tmgr).page_table)), src, floor(ts)),
         LAMBDA e :
        IF e = None
        THEN [k |-> k, ret |-> -1, panic |-> TRUE]
        ELSE [k |-> [k EXCEPT !.mem = PhysStore(PhysStore(@, pte_ppn(e), page_offset(ts),
                                                           us \div 1000000),
                                                 pte_ppn(e), page_offset(ts) + 8,
                                                 us % 1000000)],
              ret |-> 0, panic |-> FALSE])

\* 0x10000, 0x10ff8, 0x12000 and 0x12ff8
TimePtrs ==
    {VirtAddr_from(65536), VirtAddr_from(69624), VirtAddr_from(73728), VirtAddr_from(77816)}

\* the values of get_time_us()
TimeUs == {1500000, 3000001}

SysGetTime(ts, us) ==
    /\ UserMode
    /\ \E r \in {sys_get_time(K, tm, ts, us, pt_src)} :
           /\ mem' = r.k.mem
           /\ mode' = IF r.panic THEN "panic" ELSE mode
           /\ last' = [op |-> "sys_get_time", ts |-> ts, us |-> us,
                       ret |-> r.ret, panic |-> r.panic]
    /\ UNCHANGED <<phys, fa_src, pt_src, fa, v, pt, apps, kernel_space, tm, memory_set>>

NextTime ==
    \/ MmInit
    \/ LoadApps
    \/ RunFirstTask
    \/ \E ts \in TimePtrs, us \in TimeUs : SysGetTime(ts, us)
    \/ SysYield

SpecTime == InitLoad /\ [][NextTime]_vars

\* the word the running task reads at the byte address va, in memory m
UserWord(m, va) ==
    Word(Frame(m, pte_ppn(Entry(CurrentSet(tm), floor(va)))), page_offset(va) \div 8)

\* the two pages a TimeVal at ts lies on are mapped for the running task
TimeValMapped(ts) ==
    /\ Mapped(Entry(CurrentSet(tm), floor(ts)))
    /\ Mapped(Entry(CurrentSet(tm), floor(va_add(ts, 8))))

\* C37: when sys_get_time returns, the two words of the TimeVal are in the
\* physical words the addresses ts and ts + 8 translate to in the page
\* table of the running task, for every pointer whose pages are mapped, the
\* pointers whose TimeVal lies across two pages included.
C37_WriteThroughTable ==
    [][(UserMode /\ last'.op = "sys_get_time" /\ ~last'.panic /\ TimeValMapped(last'.ts))
       => /\ UserWord(mem', last'.ts) = last'.us \div 1000000
          /\ UserWord(mem', va_add(last'.ts, 8)) = last'.us % 1000000]_vars

\* a TimeVal that lies within one mapped page is written where the task
\* reads it
C37_WriteThroughTable_one_page ==
    [][(UserMode /\ last'.op = "sys_get_time" /\ ~last'.panic /\ TimeValMapped(last'.ts)
          /\ floor(va_add(last'.ts, 8)) = floor(last'.ts))
       => /\ UserWord(mem', last'.ts) = last'.us \div 1000000
          /\ UserWord(mem', va_add(last'.ts, 8)) = last'.us % 1000000]_vars

\* the tasks whose status is Running
RunningTasks(tmgr) ==
    {id \in 0..(tmgr.num_app - 1) : Task(tmgr, id).task_status = "Running"}

\* C38: after run_first_task, whenever a task executes, exactly one task
\* has status Running and it is tasks[current_task]; a task whose status is
\* Exited never becomes Ready or Running again.
C38_OneRunning ==
    [][/\ mode' = "run" => RunningTasks(tm') = {tm'.current_task}
       /\ \A id \in 0..(tm.num_app - 1) :
              Task(tm, id).task_status = "Exited" => Task(tm', id).task_status = "Exited"]_vars

\* C38 witness: the third of three tasks runs after a yield, the first has
\* exited and the second is Ready.
C38_Witness ==
    /\ mode = "run"
    /\ last.op = "sys_yield"
    /\ tm.num_app = 3
    /\ tm.current_task = 2
    /\ Task(tm, 0).task_status = "Exited"
    /\ Task(tm, 1).task_status = "Ready"
    /\ Task(tm, 2).task_status = "Running"

(***************************************************************************)
(* The scheduler with every running task yielding or exiting in the end.   *)
(* v[i] counts the task switches tasks[i - 1] has been Ready through.      *)
(***************************************************************************)
InitFair == InitTasks /\ v = [i \in 1..tm.num_app |-> 0]

\* the counts after a switch that leaves the manager as tmgr: a task that
\* was Ready and still is has waited one switch more. The count stops at
\* MaxTasks.
Waits(tmgr) ==
    [i \in 1..tm.num_app |->
        IF tm.tasks[i].task_status = "Ready" /\ tmgr.tasks[i].task_status = "Ready"
        THEN IF v[i] < MaxTasks THEN v[i] + 1 ELSE MaxTasks
        ELSE 0]

\* suspend_current_and_run_next (op = "sys_yield") and
\* exit_current_and_run_next (op = "sys_exit")
FairSwitch(op) ==
    /\ UserMode
    /\ \E r \in {run_next_task(IF op = "sys_yield" THEN mark_current_suspended(tm)
                               ELSE mark_current_exited(tm))} :
           /\ tm' = r.tm
           /\ mode' = IF r.panic THEN "completed" ELSE mode
           /\ v' = Waits(r.tm)
           /\ last' = [op |-> op,
                       waited |-> IF r.panic THEN 0 ELSE v[r.tm.current_task + 1] + 1]
    /\ UNCHANGED <<phys, fa_src, pt_src, fa, mem, pt, apps, kernel_space, memory_set>>

NextFair ==
    \/ RunFirstTask
    \/ FairSwitch("sys_yield")
    \/ FairSwitch("sys_exit")

SpecFair ==
    /\ InitFair
    /\ [][NextFair]_vars
    /\ WF_vars(RunFirstTask)
    /\ WF_vars(FairSwitch("sys_yield") \/ FairSwitch("sys_exit"))

\* task id exists and has the status st
StatusIs(id, st) == id < tm.num_app /\ Task(tm, id).task_status = st

\* C39: when every running task yields or exits in the end, a task that is
\* Ready becomes Running, it is Ready through at most num_app - 2 switches
\* and so runs after num_app - 1 switches at most, and the kernel has
\* stopped on "All applications completed!" exactly when every task is
\* Exited.
C39_StarvationFree ==
    /\ \A id \in 0..(MaxTasks - 1) :
          (mode = "run" /\ StatusIs(id, "Ready")) ~> StatusIs(id, "Running")
    /\ [](mode = "run" => \A i \in 1..tm.num_app : v[i] <= tm.num_app - 2 \/ v[i] = 0)
    /\ [](mode \in {"run", "completed"}
            => (mode = "completed"
                  <=> \A i \in 1..tm.num_app : tm.tasks[i].task_status = "Exited"))

\* C39 witness: the last of four tasks runs at the third switch after
\* run_first_task, the longest wait there is with four tasks.
C39_Witness ==
    /\ mode = "run"
    /\ tm.num_app = 4
    /\ tm.current_task = 3
    /\ last.op = "sys_yield"
    /\ last.waited = 3

(***************************************************************************)
(* Claims about the frames of the page table of a running task.            *)
(***************************************************************************)
\* the node frames of the page table of the running task
NodeFrames(tmgr) == CurrentSet(tmgr).page_table.frames

\* a step of the running task keeps every node frame of its page table, in
\* order, and leaves none with the allocator
NodesKept ==
    /\ Len(NodeFrames(tm)) <= Len(NodeFrames(tm'))
    /\ SubSeq(NodeFrames(tm'), 1, Len(NodeFrames(tm))) = NodeFrames(tm)
    /\ Range(NodeFrames(tm')) \cap AvailSet(fa') = {}

\* the step is the sys_munmap of the range the sys_mmap before it mapped
MunmapAfterMmap ==
    /\ UserMode
    /\ last.op = "sys_mmap"
    /\ last.ret = 0
    /\ last.len > 0
    /\ last'.op = "sys_munmap"
    /\ last'.start = last.start
    /\ last'.len = last.len

\* the sys_munmap gives back exactly the data frames of the area the
\* sys_mmap before it pushed, the last area of the set
GivesBackMapped ==
    /\ ~last'.panic
    /\ AvailSet(fa') \ AvailSet(fa)
         = Range(AreaTrackers(<<CurrentSet(tm).areas[Len(CurrentSet(tm).areas)]>>))
    /\ fa'.current = fa.current

\* C40: the node frames of a page table are kept until the table is
\* dropped: no sys_mmap or sys_munmap takes a frame out of the frames of
\* the table of the running task or gives one back to the allocator, the
\* frames of the table only grow, and a sys_munmap of the range a
\* successful sys_mmap has just mapped gives back exactly the data frames
\* that sys_mmap allocated.
C40_NodesRetained ==
    [][/\ (UserMode /\ last'.op \in {"sys_mmap", "sys_munmap"}) => NodesKept
       /\ MunmapAfterMmap => GivesBackMapped]_vars

\* the same for the ranges whose length is a multiple of the page size
C40_NodesRetained_pages ==
    [][/\ (UserMode /\ last'.op \in {"sys_mmap", "sys_munmap"}) => NodesKept
       /\ (MunmapAfterMmap /\ last.len % PAGE_SIZE = 0) => GivesBackMapped]_vars

=============================================================================
